---- MODULE Spec2Model ----
(***************************************************************************)
(* A model of github.com/sameeroak1110/datacache: a concurrent, keyed      *)
(* record store.  A DataCache maps keys (aliases) to shared records; the   *)
(* map is guarded by a sync.RWMutex (cacheLock), every record by its own   *)
(* sync.Mutex (pRecLock).  Goroutines are the threads of the model.  A     *)
(* method is one atomic step from the point it obtains the store lock to   *)
(* the point it returns or blocks on a record lock; a blocked method       *)
(* resumes in a second step once the record lock is free.                  *)
(***************************************************************************)
EXTENDS Integers, Sequences, FiniteSets, TLC

\* ---------------------------------------------------------------- bounds
NumThreads == 2      \* goroutines using the store
MaxIntKey == 0       \* keys of Go type int: 0..MaxIntKey
NumStrKeys == 1      \* keys of another Go type (strings)
MaxRecs == 2         \* records ever allocated
MaxPayload == 1      \* distinct non-nil payloads
MaxAddKeys == 2      \* longest keyList handed to an add or returned by the loader
MaxKeyListLen == 2   \* longest KeyList a record grows to through ReAdd
MaxLoad == 1         \* longest list the loader returns
MaxPairs == 2        \* longest list the loader returns when Load is checked pair by pair
MaxCnt == 1          \* SetCnt is called with 0..MaxCnt
MaxDel == 2          \* deletes counted as successful

\* const mutexLocked = 1
mutexLocked == 1

Threads == 1..NumThreads
NoThread == 0

\* type Key interface{}: a key carries its dynamic type
Keys == {<<"int", i>> : i \in 0..MaxIntKey} \cup {<<"str", j>> : j \in 1..NumStrKeys}

\* the Key a loop index i (a Go int) is when it is handed to delete()
IndexKey(i) == <<"int", i>>

Recs == 1..MaxRecs
NoRec == 0

Payloads == 1..MaxPayload
Nil == 0

Injective(s) == \A i, j \in 1..Len(s) : s[i] = s[j] => i = j

\* the keyList arguments: non-empty, no key twice
KeyLists == {s \in UNION {[1..n -> Keys] : n \in 1..MaxAddKeys} : Injective(s)}

\* type Payload struct { KeyList []Key; PDataRec interface{} }
PayloadRecs == [KeyList : KeyLists, PDataRec : Payloads]

\* what a LoadFunc may return: (bool, []Payload)
LoadResults == [isOK : BOOLEAN, recList : UNION {[1..n -> PayloadRecs] : n \in 0..MaxLoad}]

VARIABLES
    cache,          \* DataCache.cache: Key -> record (NoRec: key not in the map)
    KeyList,        \* Rec.KeyList
    PDataRec,       \* Rec.PDataRec
    isActive,       \* Rec.isActive
    recLock,        \* the state word of Rec.pRecLock: mutexLocked or 0
    owner,          \* the goroutine whose Lock() of Rec.pRecLock returned last, while
                    \* the mutex stays locked
    nrec,           \* records allocated so far
    cnt,            \* DataCache.cnt
    singletonFlag,  \* DataCache.singletonFlag
    loadfn,         \* DataCache.loadfn is not nil
    reciteratefn,   \* DataCache.reciteratefn is not nil
    wr,             \* the goroutine holding cacheLock for writing
    rd,             \* the goroutines holding cacheLock for reading
    pc,             \* where each goroutine is: "idle", "wlocked", "rlocked", or the
                    \* method in which it is blocked on a record lock
    loc,            \* the locals of a blocked method
    held,           \* per goroutine and record: the method through which the goroutine obtained
                    \* the record locked, until the goroutine itself releases it
    handles,        \* the records a goroutine has a *Rec of
    obs,            \* the methods whose returns are recorded in last
    last,           \* the last recorded return
    nAdd,           \* adds that returned success
    nDel,           \* whole-record deletes that returned success
    cntSet,         \* Load or SetCnt has assigned cnt
    handled         \* calls of reciteratefn per record

vars == <<cache, KeyList, PDataRec, isActive, recLock, owner, nrec, cnt, singletonFlag,
          loadfn, reciteratefn, wr, rd, pc, loc, held, handles, obs, last,
          nAdd, nDel, cntSet, handled>>

recs == <<KeyList, PDataRec, isActive>>
life == <<singletonFlag, loadfn, reciteratefn>>
locks == <<wr, rd>>
thr == <<pc, loc>>
own == <<held, handles>>
mutex == <<recLock, owner>>
ghost == <<nAdd, nDel, cntSet, handled>>

NoKey == <<"nil", 0>>

\* the locals of a method that is not blocked
NoLoc == [rec |-> NoRec, key |-> NoKey, val |-> FALSE, vis |-> {}, mode |-> "idle"]

\* what a method returned: ok is the success the caller sees (err == nil, or
\* the bool result), err the kind of error, rec the *Rec, cnt the int, data
\* the payload
Ev(op, t, ok, err, rec, n) ==
    [op |-> op, t |-> t, ok |-> ok, err |-> err, rec |-> rec, cnt |-> n, data |-> Nil]

\* the return of method op is recorded when op is observed
Log(op, ev) == last' = IF op \in obs THEN ev ELSE last

\* ------------------------------------------------------------ store lock
\* cacheLock.Lock() returns
CanWLock == wr = NoThread /\ rd = {}

\* cacheLock.RLock() returns
CanRLock == wr = NoThread

\* a self-locking method starts from a goroutine that holds no store lock
Idle(t) == pc[t] = "idle"

\* a WOLock method is called by the holder of the write store-lock
WLocked(t) == pc[t] = "wlocked" /\ wr = t

\* ... or, for the lookups, of the read store-lock
RLocked(t) == pc[t] = "rlocked" /\ t \in rd

\* a goroutine that is not inside a method
Free(t) == pc[t] \in {"idle", "wlocked", "rlocked"}

\* a method that blocks on a record lock keeps the store lock it took (mode
\* "idle": a self-locking method) or was called under
BlockW(t, where, r, k, v, mode) ==
    /\ pc' = [pc EXCEPT ![t] = where]
    /\ loc' = [loc EXCEPT ![t] = [rec |-> r, key |-> k, val |-> v, vis |-> {}, mode |-> mode]]
    /\ wr' = t
    /\ rd' = rd

BlockR(t, where, r, k, v, mode) ==
    /\ pc' = [pc EXCEPT ![t] = where]
    /\ loc' = [loc EXCEPT ![t] = [rec |-> r, key |-> k, val |-> v, vis |-> {}, mode |-> mode]]
    /\ wr' = wr
    /\ rd' = IF mode = "idle" THEN rd \cup {t} ELSE rd

\* the return of a method that was blocked: a self-locking method releases
\* the store lock it took (the deferred Unlock / RUnlock)
ReturnW(t) ==
    /\ pc' = [pc EXCEPT ![t] = loc[t].mode]
    /\ loc' = [loc EXCEPT ![t] = NoLoc]
    /\ wr' = IF loc[t].mode = "idle" THEN NoThread ELSE wr
    /\ rd' = rd

ReturnR(t) ==
    /\ pc' = [pc EXCEPT ![t] = loc[t].mode]
    /\ loc' = [loc EXCEPT ![t] = NoLoc]
    /\ wr' = wr
    /\ rd' = IF loc[t].mode = "idle" THEN rd \ {t} ELSE rd

WriteLock(t) ==
    /\ Idle(t)
    /\ CanWLock
    /\ wr' = t
    /\ pc' = [pc EXCEPT ![t] = "wlocked"]
    /\ UNCHANGED <<cache, recs, mutex, nrec, cnt, life, rd, loc, own, obs, last, ghost>>

WriteUnlock(t) ==
    /\ WLocked(t)
    /\ wr' = NoThread
    /\ pc' = [pc EXCEPT ![t] = "idle"]
    /\ UNCHANGED <<cache, recs, mutex, nrec, cnt, life, rd, loc, own, obs, last, ghost>>

ReadLock(t) ==
    /\ Idle(t)
    /\ CanRLock
    /\ rd' = rd \cup {t}
    /\ pc' = [pc EXCEPT ![t] = "rlocked"]
    /\ UNCHANGED <<cache, recs, mutex, nrec, cnt, life, wr, loc, own, obs, last, ghost>>

ReadUnlock(t) ==
    /\ RLocked(t)
    /\ rd' = rd \ {t}
    /\ pc' = [pc EXCEPT ![t] = "idle"]
    /\ UNCHANGED <<cache, recs, mutex, nrec, cnt, life, wr, loc, own, obs, last, ghost>>

\* ---------------------------------------------------------- record lock
\* the goroutine has not obtained the record locked, or has released it
NotHeld == "none"

\* the kind of method that returned a record locked: the lookup, an AndGet
\* add or re-add, the record's own RecLock, the sweep of AuxIterate
Origin(op) ==
    IF op \in {"GetRec", "GetRecWOLock"} THEN "GetRec"
    ELSE IF op \in {"RecLock", "AuxIterate"} THEN op
    ELSE "AndGet"

\* pRec.pRecLock.Lock() returns
CanLock(r) == recLock[r] = 0

\* (pRec *Rec) RecLock(), called on a *Rec the goroutine has
RecLock(t, r) ==
    /\ Free(t)
    /\ r \in handles[t]
    /\ IF CanLock(r) THEN
           /\ recLock' = [recLock EXCEPT ![r] = mutexLocked]
           /\ owner' = [owner EXCEPT ![r] = t]
           /\ held' = [held EXCEPT ![t][r] = "RecLock"]
           /\ Log("RecLock", Ev("RecLock", t, TRUE, "nil", r, 0))
           /\ UNCHANGED <<pc, loc>>
       ELSE
           /\ pc' = [pc EXCEPT ![t] = "RecLock"]
           /\ loc' = [loc EXCEPT ![t] = [NoLoc EXCEPT !.rec = r, !.mode = pc[t]]]
           /\ UNCHANGED <<mutex, held, last>>
    /\ UNCHANGED <<cache, recs, nrec, cnt, life, locks, handles, obs, ghost>>

\* a blocked RecLock() returns
RecLockResume(t) ==
    /\ pc[t] = "RecLock"
    /\ CanLock(loc[t].rec)
    /\ recLock' = [recLock EXCEPT ![loc[t].rec] = mutexLocked]
    /\ owner' = [owner EXCEPT ![loc[t].rec] = t]
    /\ held' = [held EXCEPT ![t][loc[t].rec] = "RecLock"]
    /\ pc' = [pc EXCEPT ![t] = loc[t].mode]
    /\ loc' = [loc EXCEPT ![t] = NoLoc]
    /\ Log("RecLock", Ev("RecLock", t, TRUE, "nil", loc[t].rec, 0))
    /\ UNCHANGED <<cache, recs, nrec, cnt, life, locks, handles, obs, ghost>>

\* an unlock that leaves the mutex word as it is
UnlockKeepsState(state) == state

\* the state word of the mutex after RecUnlock: Unlock() when the locked bit
\* is set, nothing otherwise
UnlockedState(state) == IF state = mutexLocked THEN 0 ELSE state

\* (pRec *Rec) RecUnlock(), called on a *Rec the goroutine has
RecUnlock(t, r) ==
    /\ Free(t)
    /\ r \in handles[t]
    /\ recLock' = [recLock EXCEPT ![r] = UnlockedState(recLock[r])]
    /\ owner' = [owner EXCEPT ![r] = NoThread]
    /\ held' = [held EXCEPT ![t][r] = NotHeld]
    /\ Log("RecUnlock", Ev("RecUnlock", t, recLock[r] = mutexLocked, "nil", r, 0))
    /\ UNCHANGED <<cache, recs, nrec, cnt, life, locks, thr, handles, obs, ghost>>

\* ----------------------------------------------------------------- init
\* Create(loadFunc, iteratorFunc): an empty map, cnt 0, singletonFlag false
InitStore ==
    /\ cache = [k \in Keys |-> NoRec]
    /\ KeyList = [r \in Recs |-> <<>>]
    /\ PDataRec = [r \in Recs |-> Nil]
    /\ isActive = [r \in Recs |-> FALSE]
    /\ recLock = [r \in Recs |-> 0]
    /\ owner = [r \in Recs |-> NoThread]
    /\ nrec = 0
    /\ cnt = 0
    /\ singletonFlag = FALSE
    /\ loadfn \in BOOLEAN
    /\ reciteratefn \in BOOLEAN
    /\ wr = NoThread
    /\ rd = {}
    /\ pc = [t \in Threads |-> "idle"]
    /\ loc = [t \in Threads |-> NoLoc]
    /\ held = [t \in Threads |-> [r \in Recs |-> NotHeld]]
    /\ handles = [t \in Threads |-> {}]
    /\ last = Ev("Create", NoThread, TRUE, "nil", NoRec, 0)
    /\ nAdd = 0
    /\ nDel = 0
    /\ cntSet = FALSE
    /\ handled = [r \in Recs |-> 0]

\* ------------------------------------------------------------------ adds
\* an existence check that looks at the first key only
KeyExistsFirstOnly(c, keyList) == c[keyList[1]] # NoRec

\* the existence check of the adds: some key of keyList is in the map
KeyExists(c, keyList) == \E i \in 1..Len(keyList) : c[keyList[i]] # NoRec

\* delete(cache, k)
MapDelete(c, k) == [x \in Keys |-> IF x = k THEN NoRec ELSE c[x]]

\* a mapping loop that leaves the keys the map has where they are
MapNewKeysOnly(c, keyList, r) ==
    [x \in Keys |-> IF c[x] = NoRec /\ (\E i \in 1..Len(keyList) : keyList[i] = x)
                    THEN r ELSE c[x]]

\* a mapping loop that stops after the first key
MapFirstKey(c, keyList, r) == [c EXCEPT ![keyList[1]] = r]

\* for i := range keyList { cache[keyList[i]] = pDataCacheRec }
MapKeys(c, keyList, r) ==
    [x \in Keys |-> IF \E i \in 1..Len(keyList) : keyList[i] = x THEN r ELSE c[x]]

\* the displacement loop of the forced adds, from (1-based) position i on:
\* for i := range keyList { if keyList[i] is in the map { delete(cache, i) } }
RECURSIVE ForceDelete(_, _, _)
ForceDelete(c, keyList, i) ==
    IF i > Len(keyList) THEN c
    ELSE ForceDelete(IF c[keyList[i]] # NoRec THEN MapDelete(c, IndexKey(i - 1)) ELSE c,
                     keyList, i + 1)

\* the body the eight adds share: the nil check, the existence check (check),
\* the displacement loop (force), the new record, the mapping of its keys,
\* the counter, and for the AndGet forms (get) the lock of the new record
AddBody(op, t, keyList, pRec, check, force, get) ==
    IF pRec = Nil THEN
        /\ Log(op, Ev(op, t, FALSE, "NilArg", NoRec, -1))
        /\ UNCHANGED <<cache, recs, mutex, nrec, cnt, own, ghost>>
    ELSE IF check /\ KeyExists(cache, keyList) THEN
        /\ Log(op, Ev(op, t, FALSE, "KeyExists", NoRec, -1))
        /\ UNCHANGED <<cache, recs, mutex, nrec, cnt, own, ghost>>
    ELSE
        /\ nrec < MaxRecs
        /\ LET r == nrec + 1
               c0 == IF force THEN ForceDelete(cache, keyList, 1) ELSE cache
           IN  /\ nrec' = r
               /\ KeyList' = [KeyList EXCEPT ![r] = keyList]
               /\ PDataRec' = [PDataRec EXCEPT ![r] = pRec]
               /\ isActive' = [isActive EXCEPT ![r] = TRUE]
               /\ cache' = MapKeys(c0, keyList, r)
               /\ cnt' = cnt + 1
               /\ recLock' = [recLock EXCEPT ![r] = IF get THEN mutexLocked ELSE 0]
               /\ owner' = [owner EXCEPT ![r] = IF get THEN t ELSE NoThread]
               /\ held' = IF get THEN [held EXCEPT ![t][r] = Origin(op)] ELSE held
               /\ handles' = IF get THEN [handles EXCEPT ![t] = @ \cup {r}] ELSE handles
               /\ Log(op, Ev(op, t, TRUE, "nil", IF get THEN r ELSE NoRec, cnt + 1))
               /\ nAdd' = nAdd + 1
               /\ UNCHANGED <<nDel, cntSet, handled>>

AddRec(t, keyList, pRec, recExistsErrFlag) ==
    /\ Idle(t)
    /\ pRec # Nil => CanWLock
    /\ AddBody("AddRec", t, keyList, pRec, recExistsErrFlag, FALSE, FALSE)
    /\ UNCHANGED <<life, locks, thr, obs>>

ForceAddRec(t, keyList, pRec) ==
    /\ Idle(t)
    /\ pRec # Nil => CanWLock
    /\ AddBody("ForceAddRec", t, keyList, pRec, FALSE, TRUE, FALSE)
    /\ UNCHANGED <<life, locks, thr, obs>>

AddAndGetRec(t, keyList, pRec, recExistsErrFlag) ==
    /\ Idle(t)
    /\ pRec # Nil => CanWLock
    /\ AddBody("AddAndGetRec", t, keyList, pRec, recExistsErrFlag, FALSE, TRUE)
    /\ UNCHANGED <<life, locks, thr, obs>>

ForceAddAndGetRec(t, keyList, pRec) ==
    /\ Idle(t)
    /\ pRec # Nil => CanWLock
    /\ AddBody("ForceAddAndGetRec", t, keyList, pRec, FALSE, TRUE, TRUE)
    /\ UNCHANGED <<life, locks, thr, obs>>

AddRecWOLock(t, keyList, pRec, recExistsErrFlag) ==
    /\ WLocked(t)
    /\ AddBody("AddRecWOLock", t, keyList, pRec, recExistsErrFlag, FALSE, FALSE)
    /\ UNCHANGED <<life, locks, thr, obs>>

ForceAddRecWOLock(t, keyList, pRec) ==
    /\ WLocked(t)
    /\ AddBody("ForceAddRecWOLock", t, keyList, pRec, FALSE, TRUE, FALSE)
    /\ UNCHANGED <<life, locks, thr, obs>>

AddAndGetRecWOLock(t, keyList, pRec, recExistsErrFlag) ==
    /\ WLocked(t)
    /\ AddBody("AddAndGetRecWOLock", t, keyList, pRec, recExistsErrFlag, FALSE, TRUE)
    /\ UNCHANGED <<life, locks, thr, obs>>

ForceAddAndGetRecWOLock(t, keyList, pRec) ==
    /\ WLocked(t)
    /\ AddBody("ForceAddAndGetRecWOLock", t, keyList, pRec, FALSE, TRUE, TRUE)
    /\ UNCHANGED <<life, locks, thr, obs>>

\* ---------------------------------------------------------------- re-add
\* a re-add that maps newKey and leaves the record's KeyList as it is
ReAddBodyNoAppend(op, t, originalKey, newKey, get, mode) ==
    IF cache[originalKey] = NoRec THEN
        /\ Log(op, Ev(op, t, FALSE, "KeyNotFound", NoRec, -1))
        /\ UNCHANGED <<cache, recs, mutex, nrec, cnt, own, ghost, locks, thr>>
    ELSE
        LET r == cache[originalKey]
        IN  /\ Len(KeyList[r]) < MaxKeyListLen
            /\ KeyList' = KeyList
            /\ cache' = [cache EXCEPT ![newKey] = r]
            /\ UNCHANGED <<PDataRec, isActive, nrec, cnt, ghost>>
            /\ IF ~get THEN
                   /\ Log(op, Ev(op, t, TRUE, "nil", NoRec, cnt))
                   /\ UNCHANGED <<mutex, own, locks, thr>>
               ELSE IF CanLock(r) THEN
                   /\ recLock' = [recLock EXCEPT ![r] = mutexLocked]
                   /\ owner' = [owner EXCEPT ![r] = t]
                   /\ held' = [held EXCEPT ![t][r] = Origin(op)]
                   /\ handles' = [handles EXCEPT ![t] = @ \cup {r}]
                   /\ Log(op, Ev(op, t, TRUE, "nil", r, cnt))
                   /\ UNCHANGED <<locks, thr>>
               ELSE
                   /\ BlockW(t, op, r, newKey, FALSE, mode)
                   /\ UNCHANGED <<mutex, own, last>>

\* the body the four re-adds share: the lookup of originalKey, the append to
\* the record's KeyList, the mapping of newKey, and for the AndGet forms the
\* lock of the record, on which the method may block
ReAddBody(op, t, originalKey, newKey, get, mode) ==
    IF cache[originalKey] = NoRec THEN
        /\ Log(op, Ev(op, t, FALSE, "KeyNotFound", NoRec, -1))
        /\ UNCHANGED <<cache, recs, mutex, nrec, cnt, own, ghost, locks, thr>>
    ELSE
        LET r == cache[originalKey]
        IN  /\ Len(KeyList[r]) < MaxKeyListLen
            /\ KeyList' = [KeyList EXCEPT ![r] = Append(@, newKey)]
            /\ cache' = [cache EXCEPT ![newKey] = r]
            /\ UNCHANGED <<PDataRec, isActive, nrec, cnt, ghost>>
            /\ IF ~get THEN
                   /\ Log(op, Ev(op, t, TRUE, "nil", NoRec, cnt))
                   /\ UNCHANGED <<mutex, own, locks, thr>>
               ELSE IF CanLock(r) THEN
                   /\ recLock' = [recLock EXCEPT ![r] = mutexLocked]
                   /\ owner' = [owner EXCEPT ![r] = t]
                   /\ held' = [held EXCEPT ![t][r] = Origin(op)]
                   /\ handles' = [handles EXCEPT ![t] = @ \cup {r}]
                   /\ Log(op, Ev(op, t, TRUE, "nil", r, cnt))
                   /\ UNCHANGED <<locks, thr>>
               ELSE
                   /\ BlockW(t, op, r, newKey, FALSE, mode)
                   /\ UNCHANGED <<mutex, own, last>>

ReAddRec(t, originalKey, newKey) ==
    /\ Idle(t)
    /\ CanWLock
    /\ ReAddBody("ReAddRec", t, originalKey, newKey, FALSE, "idle")
    /\ UNCHANGED <<life, obs>>

ReAddAndGetRec(t, originalKey, newKey) ==
    /\ Idle(t)
    /\ CanWLock
    /\ ReAddBody("ReAddAndGetRec", t, originalKey, newKey, TRUE, "idle")
    /\ UNCHANGED <<life, obs>>

ReAddRecWOLock(t, originalKey, newKey) ==
    /\ WLocked(t)
    /\ ReAddBody("ReAddRecWOLock", t, originalKey, newKey, FALSE, "wlocked")
    /\ UNCHANGED <<life, obs>>

ReAddAndGetRecWOLock(t, originalKey, newKey) ==
    /\ WLocked(t)
    /\ ReAddBody("ReAddAndGetRecWOLock", t, originalKey, newKey, TRUE, "wlocked")
    /\ UNCHANGED <<life, obs>>

\* prec.pRecLock.Lock() of a blocked ReAddAndGetRec / ReAddAndGetRecWOLock
\* returns, and so does the method
ReAddAndGetRecResume(t) ==
    /\ pc[t] \in {"ReAddAndGetRec", "ReAddAndGetRecWOLock"}
    /\ CanLock(loc[t].rec)
    /\ recLock' = [recLock EXCEPT ![loc[t].rec] = mutexLocked]
    /\ owner' = [owner EXCEPT ![loc[t].rec] = t]
    /\ held' = [held EXCEPT ![t][loc[t].rec] = Origin(pc[t])]
    /\ handles' = [handles EXCEPT ![t] = @ \cup {loc[t].rec}]
    /\ Log(pc[t], Ev(pc[t], t, TRUE, "nil", loc[t].rec, cnt))
    /\ ReturnW(t)
    /\ UNCHANGED <<cache, recs, nrec, cnt, life, obs, ghost>>

\* --------------------------------------------------------------- deletes
\* a DeleteKey that removes every key of the record that key maps to
DeleteKeyAllAliases(t, key) ==
    /\ Idle(t)
    /\ CanWLock
    /\ cache' = [x \in Keys |-> IF x = key \/ (cache[key] # NoRec /\ cache[x] = cache[key])
                                 THEN NoRec ELSE cache[x]]
    /\ Log("DeleteKey", Ev("DeleteKey", t, TRUE, "nil", NoRec, 0))
    /\ UNCHANGED <<recs, mutex, nrec, cnt, life, locks, thr, own, obs, ghost>>

\* DeleteKey: delete(cache, key) under the write store-lock; returns nil
DeleteKey(t, key) ==
    /\ Idle(t)
    /\ CanWLock
    /\ cache' = MapDelete(cache, key)
    /\ Log("DeleteKey", Ev("DeleteKey", t, TRUE, "nil", NoRec, 0))
    /\ UNCHANGED <<recs, mutex, nrec, cnt, life, locks, thr, own, obs, ghost>>

\* a loop that deletes one key of the list and stops
DeleteKeysFirst(c, keylist, i) ==
    IF i > Len(keylist) THEN c ELSE MapDelete(c, keylist[i])

\* for _, key := range pRec.KeyList { delete(cache, key) }, from position i on
RECURSIVE DeleteKeys(_, _, _)
DeleteKeys(c, keylist, i) ==
    IF i > Len(keylist) THEN c
    ELSE DeleteKeys(MapDelete(c, keylist[i]), keylist, i + 1)

\* what DeleteRec / DeleteRecWOLock does once the record lock was obtained:
\* every key of the record's KeyList leaves the map, cnt goes down by one
Unlink(op, t, r) ==
    /\ nDel < MaxDel
    /\ cache' = DeleteKeys(cache, KeyList[r], 1)
    /\ cnt' = cnt - 1
    /\ nDel' = nDel + 1
    /\ Log(op, Ev(op, t, TRUE, "nil", r, cnt - 1))
    /\ UNCHANGED <<recs, mutex, nrec, own, nAdd, cntSet, handled>>

\* a DeleteRec that gives the store lock up while it waits for the record
DeleteRecYields(t, key) ==
    /\ Idle(t)
    /\ CanWLock
    /\ IF cache[key] = NoRec THEN
           /\ Log("DeleteRec", Ev("DeleteRec", t, FALSE, "KeyNotFound", NoRec, -1))
           /\ UNCHANGED <<cache, recs, mutex, nrec, cnt, own, ghost, locks, thr>>
       ELSE IF CanLock(cache[key]) THEN
           /\ Unlink("DeleteRec", t, cache[key])
           /\ UNCHANGED <<locks, thr>>
       ELSE
           /\ pc' = [pc EXCEPT ![t] = "DeleteRec"]
           /\ loc' = [loc EXCEPT ![t] = [NoLoc EXCEPT !.rec = cache[key], !.key = key]]
           /\ UNCHANGED <<cache, recs, mutex, nrec, cnt, own, ghost, last, locks>>
    /\ UNCHANGED <<life, obs>>

\* DeleteRec: the lookup under the write store-lock, then the rendezvous on
\* the record lock (pTmpRecLock.Lock(); pTmpRecLock.Unlock()), then the unlink
DeleteRec(t, key) ==
    /\ Idle(t)
    /\ CanWLock
    /\ IF cache[key] = NoRec THEN
           /\ Log("DeleteRec", Ev("DeleteRec", t, FALSE, "KeyNotFound", NoRec, -1))
           /\ UNCHANGED <<cache, recs, mutex, nrec, cnt, own, ghost, locks, thr>>
       ELSE IF CanLock(cache[key]) THEN
           /\ Unlink("DeleteRec", t, cache[key])
           /\ UNCHANGED <<locks, thr>>
       ELSE
           /\ BlockW(t, "DeleteRec", cache[key], key, FALSE, "idle")
           /\ UNCHANGED <<cache, recs, mutex, nrec, cnt, own, ghost, last>>
    /\ UNCHANGED <<life, obs>>

\* DeleteRecWOLock: as DeleteRec, but a key that is not in the map returns
\* (true, 0), and the record lock is held across the deletes
DeleteRecWOLock(t, key) ==
    /\ WLocked(t)
    /\ IF cache[key] = NoRec THEN
           /\ nDel < MaxDel
           /\ nDel' = nDel + 1
           /\ Log("DeleteRecWOLock", Ev("DeleteRecWOLock", t, TRUE, "nil", NoRec, 0))
           /\ UNCHANGED <<cache, recs, mutex, nrec, cnt, own, nAdd, cntSet, handled, locks, thr>>
       ELSE IF CanLock(cache[key]) THEN
           /\ Unlink("DeleteRecWOLock", t, cache[key])
           /\ UNCHANGED <<locks, thr>>
       ELSE
           /\ BlockW(t, "DeleteRecWOLock", cache[key], key, FALSE, "wlocked")
           /\ UNCHANGED <<cache, recs, mutex, nrec, cnt, own, ghost, last>>
    /\ UNCHANGED <<life, obs>>

\* pTmpRecLock.Lock() of a blocked DeleteRec / DeleteRecWOLock returns: the
\* record is unlinked and the method returns
DeleteRecResume(t) ==
    /\ pc[t] \in {"DeleteRec", "DeleteRecWOLock"}
    /\ CanLock(loc[t].rec)
    /\ Unlink(pc[t], t, loc[t].rec)
    /\ ReturnW(t)
    /\ UNCHANGED <<life, obs>>

\* a DeleteCache whose loop runs without the write store-lock
DeleteCacheNoStoreLock(t) ==
    /\ Idle(t)
    /\ CanWLock
    /\ pc' = [pc EXCEPT ![t] = "DeleteCache"]
    /\ UNCHANGED <<cache, recs, mutex, nrec, cnt, life, locks, loc, own, obs, last, ghost>>

\* DeleteCache / DeleteCacheWOLock: the store lock, then the range loop
DeleteCache(t) ==
    /\ Idle(t)
    /\ CanWLock
    /\ BlockW(t, "DeleteCache", NoRec, NoKey, FALSE, "idle")
    /\ UNCHANGED <<cache, recs, mutex, nrec, cnt, life, own, obs, last, ghost>>

DeleteCacheWOLock(t) ==
    /\ WLocked(t)
    /\ BlockW(t, "DeleteCacheWOLock", NoRec, NoKey, FALSE, "wlocked")
    /\ UNCHANGED <<cache, recs, mutex, nrec, cnt, life, own, obs, last, ghost>>

\* one turn of the loop of DeleteCache: range yields a key of the map, the
\* loop locks its record (and waits while it is locked), deletes the key and
\* unlocks; with no key left the method returns true
DeleteCacheStep(t) ==
    /\ pc[t] \in {"DeleteCache", "DeleteCacheWOLock"}
    /\ IF loc[t].key # NoKey THEN
           \* blocked in pTmpRecLock.Lock() for loc[t].key
           /\ CanLock(loc[t].rec)
           /\ cache' = MapDelete(cache, loc[t].key)
           /\ loc' = [loc EXCEPT ![t].key = NoKey, ![t].rec = NoRec]
           /\ UNCHANGED <<pc, locks, last>>
       ELSE IF \A k \in Keys : cache[k] = NoRec THEN
           /\ Log(pc[t], Ev(pc[t], t, TRUE, "nil", NoRec, 0))
           /\ ReturnW(t)
           /\ UNCHANGED cache
       ELSE
           \E k \in Keys :
               /\ cache[k] # NoRec
               /\ IF CanLock(cache[k]) THEN
                      /\ cache' = MapDelete(cache, k)
                      /\ UNCHANGED loc
                  ELSE
                      /\ loc' = [loc EXCEPT ![t].key = k, ![t].rec = cache[k]]
                      /\ UNCHANGED cache
               /\ UNCHANGED <<pc, locks, last>>
    /\ UNCHANGED <<recs, mutex, nrec, cnt, life, own, obs, ghost>>

\* --------------------------------------------------------------- lookups
\* a lookup that hands the record of a mapped key back with its lock free,
\* as GetDataRec leaves it
GetRecBodyUnlocked(op, t, key, mode) ==
    IF cache[key] = NoRec THEN
        /\ Log(op, Ev(op, t, FALSE, "nil", NoRec, 0))
        /\ UNCHANGED <<mutex, own, locks, thr>>
    ELSE IF CanLock(cache[key]) THEN
        /\ handles' = [handles EXCEPT ![t] = @ \cup {cache[key]}]
        /\ Log(op, Ev(op, t, TRUE, "nil", cache[key], 0))
        /\ UNCHANGED <<mutex, held, locks, thr>>
    ELSE
        /\ BlockR(t, op, cache[key], key, FALSE, mode)
        /\ UNCHANGED <<mutex, own, last>>

\* a lookup that dishonours the request when the record is not active
GetRecBodyActiveOnly(op, t, key, mode) ==
    IF cache[key] = NoRec \/ ~isActive[cache[key]] THEN
        /\ Log(op, Ev(op, t, FALSE, "nil", NoRec, 0))
        /\ UNCHANGED <<mutex, own, locks, thr>>
    ELSE IF CanLock(cache[key]) THEN
        /\ recLock' = [recLock EXCEPT ![cache[key]] = mutexLocked]
        /\ owner' = [owner EXCEPT ![cache[key]] = t]
        /\ held' = [held EXCEPT ![t][cache[key]] = Origin(op)]
        /\ handles' = [handles EXCEPT ![t] = @ \cup {cache[key]}]
        /\ Log(op, Ev(op, t, TRUE, "nil", cache[key], 0))
        /\ UNCHANGED <<locks, thr>>
    ELSE
        /\ BlockR(t, op, cache[key], key, FALSE, mode)
        /\ UNCHANGED <<mutex, own, last>>

\* the body of GetRec / GetRecWOLock: the lookup, then pRec.pRecLock.Lock(),
\* on which the method may block; the record is returned locked
GetRecBody(op, t, key, mode) ==
    IF cache[key] = NoRec THEN
        /\ Log(op, Ev(op, t, FALSE, "nil", NoRec, 0))
        /\ UNCHANGED <<mutex, own, locks, thr>>
    ELSE IF CanLock(cache[key]) THEN
        /\ recLock' = [recLock EXCEPT ![cache[key]] = mutexLocked]
        /\ owner' = [owner EXCEPT ![cache[key]] = t]
        /\ held' = [held EXCEPT ![t][cache[key]] = Origin(op)]
        /\ handles' = [handles EXCEPT ![t] = @ \cup {cache[key]}]
        /\ Log(op, Ev(op, t, TRUE, "nil", cache[key], 0))
        /\ UNCHANGED <<locks, thr>>
    ELSE
        /\ BlockR(t, op, cache[key], key, FALSE, mode)
        /\ UNCHANGED <<mutex, own, last>>

GetRec(t, key) ==
    /\ Idle(t)
    /\ CanRLock
    /\ GetRecBody("GetRec", t, key, "idle")
    /\ UNCHANGED <<cache, recs, nrec, cnt, life, obs, ghost>>

GetRecWOLock(t, key) ==
    /\ WLocked(t) \/ RLocked(t)
    /\ GetRecBody("GetRecWOLock", t, key, pc[t])
    /\ UNCHANGED <<cache, recs, nrec, cnt, life, obs, ghost>>

\* pRec.pRecLock.Lock() of a blocked GetRec / GetRecWOLock returns
GetRecResume(t) ==
    /\ pc[t] \in {"GetRec", "GetRecWOLock"}
    /\ CanLock(loc[t].rec)
    /\ recLock' = [recLock EXCEPT ![loc[t].rec] = mutexLocked]
    /\ owner' = [owner EXCEPT ![loc[t].rec] = t]
    /\ held' = [held EXCEPT ![t][loc[t].rec] = Origin(pc[t])]
    /\ handles' = [handles EXCEPT ![t] = @ \cup {loc[t].rec}]
    /\ Log(pc[t], Ev(pc[t], t, TRUE, "nil", loc[t].rec, 0))
    /\ ReturnR(t)
    /\ UNCHANGED <<cache, recs, nrec, cnt, life, obs, ghost>>

\* the body of GetDataRec / GetDataRecWOLock up to the return of
\* pRec.pRecLock.Lock(): the lookup, then the record lock, which is taken at
\* once when it is free ("GetDataRecRead": the goroutine is between Lock()
\* and Unlock()) and waited for otherwise
GetDataRecBody(op, t, key, mode) ==
    IF cache[key] = NoRec THEN
        /\ Log(op, Ev(op, t, FALSE, "nil", NoRec, 0))
        /\ UNCHANGED <<mutex, locks, thr>>
    ELSE IF CanLock(cache[key]) THEN
        /\ recLock' = [recLock EXCEPT ![cache[key]] = mutexLocked]
        /\ owner' = [owner EXCEPT ![cache[key]] = t]
        /\ BlockR(t, "GetDataRecRead", cache[key], key, FALSE, mode)
        /\ UNCHANGED last
    ELSE
        /\ BlockR(t, op, cache[key], key, FALSE, mode)
        /\ UNCHANGED <<mutex, last>>

GetDataRec(t, key) ==
    /\ Idle(t)
    /\ CanRLock
    /\ GetDataRecBody("GetDataRec", t, key, "idle")
    /\ UNCHANGED <<cache, recs, nrec, cnt, life, own, obs, ghost>>

GetDataRecWOLock(t, key) ==
    /\ WLocked(t) \/ RLocked(t)
    /\ GetDataRecBody("GetDataRecWOLock", t, key, pc[t])
    /\ UNCHANGED <<cache, recs, nrec, cnt, life, own, obs, ghost>>

\* pRec.pRecLock.Lock() of a waiting GetDataRec / GetDataRecWOLock returns
GetDataRecResume(t) ==
    /\ pc[t] \in {"GetDataRec", "GetDataRecWOLock"}
    /\ CanLock(loc[t].rec)
    /\ recLock' = [recLock EXCEPT ![loc[t].rec] = mutexLocked]
    /\ owner' = [owner EXCEPT ![loc[t].rec] = t]
    /\ pc' = [pc EXCEPT ![t] = "GetDataRecRead"]
    /\ UNCHANGED <<cache, recs, nrec, cnt, life, locks, loc, own, obs, last, ghost>>

\* pDataRec := pRec.PDataRec; pRec.pRecLock.Unlock(); return true, pDataRec.
\* Unlock() of a mutex that is not locked ends the process
GetDataRecRead(t) ==
    /\ pc[t] = "GetDataRecRead"
    /\ IF recLock[loc[t].rec] = mutexLocked THEN
           /\ recLock' = [recLock EXCEPT ![loc[t].rec] = 0]
           /\ owner' = [owner EXCEPT ![loc[t].rec] = NoThread]
           /\ LET op == IF loc[t].mode = "idle" THEN "GetDataRec" ELSE "GetDataRecWOLock"
              IN  Log(op, [Ev(op, t, TRUE, "nil", NoRec, 0)
                               EXCEPT !.data = PDataRec[loc[t].rec]])
           /\ ReturnR(t)
       ELSE
           /\ pc' = [u \in Threads |-> "fatal"]
           /\ UNCHANGED <<mutex, locks, loc, last>>
    /\ UNCHANGED <<cache, recs, nrec, cnt, life, own, obs, ghost>>

\* a DoesKeyExist that waits for the lock of the record, as GetDataRec does
DoesKeyExistLocking(t, key) ==
    /\ Idle(t)
    /\ CanRLock
    /\ cache[key] # NoRec => CanLock(cache[key])
    /\ Log("DoesKeyExist", Ev("DoesKeyExist", t, cache[key] # NoRec, "nil", NoRec, 0))
    /\ UNCHANGED <<cache, recs, mutex, nrec, cnt, life, locks, thr, own, obs, ghost>>

\* DoesKeyExist / DoesKeyExistWOLock: the lookup alone
DoesKeyExist(t, key) ==
    /\ Idle(t)
    /\ CanRLock
    /\ Log("DoesKeyExist", Ev("DoesKeyExist", t, cache[key] # NoRec, "nil", NoRec, 0))
    /\ UNCHANGED <<cache, recs, mutex, nrec, cnt, life, locks, thr, own, obs, ghost>>

DoesKeyExistWOLock(t, key) ==
    /\ WLocked(t) \/ RLocked(t)
    /\ Log("DoesKeyExistWOLock", Ev("DoesKeyExistWOLock", t, cache[key] # NoRec, "nil", NoRec, 0))
    /\ UNCHANGED <<cache, recs, mutex, nrec, cnt, life, locks, thr, own, obs, ghost>>

\* ---------------------------------------------------------- record state
\* an UpdateRecState that goes on to its write without taking the record lock
UpdateRecStateBodyNoLock(op, t, key, recState, mode) ==
    IF cache[key] = NoRec THEN
        /\ Log(op, Ev(op, t, FALSE, "nil", NoRec, 0))
        /\ UNCHANGED <<mutex, locks, thr>>
    ELSE
        /\ BlockR(t, "UpdateRecStateWrite", cache[key], key, recState, mode)
        /\ UNCHANGED <<mutex, last>>

\* the body of UpdateRecState / UpdateRecStateWOLock up to the return of
\* pRec.pRecLock.Lock(): the lookup, then the record lock, which is taken at
\* once when it is free ("UpdateRecStateWrite": the goroutine is between
\* Lock() and Unlock()) and waited for otherwise
UpdateRecStateBody(op, t, key, recState, mode) ==
    IF cache[key] = NoRec THEN
        /\ Log(op, Ev(op, t, FALSE, "nil", NoRec, 0))
        /\ UNCHANGED <<mutex, locks, thr>>
    ELSE IF CanLock(cache[key]) THEN
        /\ recLock' = [recLock EXCEPT ![cache[key]] = mutexLocked]
        /\ owner' = [owner EXCEPT ![cache[key]] = t]
        /\ BlockR(t, "UpdateRecStateWrite", cache[key], key, recState, mode)
        /\ UNCHANGED last
    ELSE
        /\ BlockR(t, op, cache[key], key, recState, mode)
        /\ UNCHANGED <<mutex, last>>

UpdateRecState(t, key, recState) ==
    /\ Idle(t)
    /\ CanRLock
    /\ UpdateRecStateBody("UpdateRecState", t, key, recState, "idle")
    /\ UNCHANGED <<cache, recs, nrec, cnt, life, own, obs, ghost>>

UpdateRecStateWOLock(t, key, recState) ==
    /\ WLocked(t) \/ RLocked(t)
    /\ UpdateRecStateBody("UpdateRecStateWOLock", t, key, recState, pc[t])
    /\ UNCHANGED <<cache, recs, nrec, cnt, life, own, obs, ghost>>

\* pRec.pRecLock.Lock() of a waiting UpdateRecState / UpdateRecStateWOLock returns
UpdateRecStateResume(t) ==
    /\ pc[t] \in {"UpdateRecState", "UpdateRecStateWOLock"}
    /\ CanLock(loc[t].rec)
    /\ recLock' = [recLock EXCEPT ![loc[t].rec] = mutexLocked]
    /\ owner' = [owner EXCEPT ![loc[t].rec] = t]
    /\ pc' = [pc EXCEPT ![t] = "UpdateRecStateWrite"]
    /\ UNCHANGED <<cache, recs, nrec, cnt, life, locks, loc, own, obs, last, ghost>>

\* pRec.isActive = recState; pRec.pRecLock.Unlock(); return true. Unlock()
\* of a mutex that is not locked is a fatal error of the runtime, which ends
\* the process
UpdateRecStateWrite(t) ==
    /\ pc[t] = "UpdateRecStateWrite"
    /\ isActive' = [isActive EXCEPT ![loc[t].rec] = loc[t].val]
    /\ IF recLock[loc[t].rec] = mutexLocked THEN
           /\ recLock' = [recLock EXCEPT ![loc[t].rec] = 0]
           /\ owner' = [owner EXCEPT ![loc[t].rec] = NoThread]
           /\ LET op == IF loc[t].mode = "idle" THEN "UpdateRecState"
                        ELSE "UpdateRecStateWOLock"
              IN  Log(op, Ev(op, t, TRUE, "nil", NoRec, 0))
           /\ ReturnR(t)
       ELSE
           /\ pc' = [u \in Threads |-> "fatal"]
           /\ UNCHANGED <<mutex, locks, loc, last>>
    /\ UNCHANGED <<cache, KeyList, PDataRec, nrec, cnt, life, own, obs, ghost>>

\* --------------------------------------------------------------- counter
GetCnt(t) ==
    /\ Idle(t)
    /\ CanWLock
    /\ Log("GetCnt", Ev("GetCnt", t, TRUE, "nil", NoRec, cnt))
    /\ UNCHANGED <<cache, recs, mutex, nrec, cnt, life, locks, thr, own, obs, ghost>>

SetCnt(t, val) ==
    /\ Idle(t)
    /\ CanWLock
    /\ cnt' = val
    /\ cntSet' = TRUE
    /\ Log("SetCnt", Ev("SetCnt", t, TRUE, "nil", NoRec, val))
    /\ UNCHANGED <<cache, recs, mutex, nrec, life, locks, thr, own, obs, nAdd, nDel, handled>>

\* ------------------------------------------------------------- lifecycle
\* the map after the insertion loop of Load, from pair i on; pair i becomes
\* record base + i
RECURSIVE LoadCache(_, _, _, _)
LoadCache(c, recList, i, base) ==
    IF i > Len(recList) THEN c
    ELSE LoadCache(MapKeys(c, recList[i].KeyList, base + i), recList, i + 1, base)

\* the insertion loop of Load / LoadAndIterate and the assignment of cnt
LoadRecs(recList) ==
    LET n == Len(recList)
        new == (nrec + 1)..(nrec + n)
    IN  /\ nrec + n <= MaxRecs
        /\ nrec' = nrec + n
        /\ KeyList' = [r \in Recs |-> IF r \in new THEN recList[r - nrec].KeyList ELSE KeyList[r]]
        /\ PDataRec' = [r \in Recs |-> IF r \in new THEN recList[r - nrec].PDataRec ELSE PDataRec[r]]
        /\ isActive' = [r \in Recs |-> IF r \in new THEN TRUE ELSE isActive[r]]
        /\ cache' = LoadCache(cache, recList, 1, nrec)
        /\ cnt' = n
        /\ cntSet' = TRUE

\* for _, pRec := range cache { reciteratefn(pRec.PDataRec) } over map c: one
\* call per entry of the map
Sweep(c) == [r \in Recs |-> handled[r] + Cardinality({k \in Keys : c[k] = r})]

\* a Load that inserts the list of a loader that reported failure
LoadInsertsOnFailure(t, isLoaderProvided, res) ==
    /\ Idle(t)
    /\ CanWLock
    /\ singletonFlag' = IF ~reciteratefn THEN TRUE ELSE singletonFlag
    /\ IF singletonFlag THEN
           /\ Log("Load", Ev("Load", t, FALSE, "AlreadyLoaded", NoRec, 0))
           /\ UNCHANGED <<cache, recs, nrec, cnt, cntSet>>
       ELSE IF ~loadfn THEN
           /\ Log("Load", IF ~isLoaderProvided THEN Ev("Load", t, TRUE, "nil", NoRec, 0)
                          ELSE Ev("Load", t, FALSE, "MissingLoader", NoRec, 0))
           /\ UNCHANGED <<cache, recs, nrec, cnt, cntSet>>
       ELSE IF ~res.isOK THEN
           /\ LoadRecs(res.recList)
           /\ Log("Load", Ev("Load", t, FALSE, "LoaderFailed", NoRec, 0))
       ELSE
           /\ LoadRecs(res.recList)
           /\ Log("Load", Ev("Load", t, TRUE, "nil", NoRec, 0))
    /\ UNCHANGED <<mutex, loadfn, reciteratefn, locks, thr, own, obs, nAdd, nDel, handled>>

\* Load(isLoaderProvided); res is what loadfn returns when it is called
Load(t, isLoaderProvided, res) ==
    /\ Idle(t)
    /\ CanWLock
    /\ singletonFlag' = IF ~reciteratefn THEN TRUE ELSE singletonFlag
    /\ IF singletonFlag THEN
           /\ Log("Load", Ev("Load", t, FALSE, "AlreadyLoaded", NoRec, 0))
           /\ UNCHANGED <<cache, recs, nrec, cnt, cntSet>>
       ELSE IF ~loadfn THEN
           /\ Log("Load", IF ~isLoaderProvided THEN Ev("Load", t, TRUE, "nil", NoRec, 0)
                          ELSE Ev("Load", t, FALSE, "MissingLoader", NoRec, 0))
           /\ UNCHANGED <<cache, recs, nrec, cnt, cntSet>>
       ELSE IF ~res.isOK THEN
           /\ Log("Load", Ev("Load", t, FALSE, "LoaderFailed", NoRec, 0))
           /\ UNCHANGED <<cache, recs, nrec, cnt, cntSet>>
       ELSE
           /\ LoadRecs(res.recList)
           /\ Log("Load", Ev("Load", t, TRUE, "nil", NoRec, 0))
    /\ UNCHANGED <<mutex, loadfn, reciteratefn, locks, thr, own, obs, nAdd, nDel, handled>>

\* an Iterate whose deferred function does not set the load-time flag
IterateKeepsFlag(t, isIteratorProvided) ==
    /\ Idle(t)
    /\ CanWLock
    /\ singletonFlag' = singletonFlag
    /\ IF singletonFlag THEN
           /\ Log("Iterate", Ev("Iterate", t, FALSE, "AlreadyLoaded", NoRec, 0))
           /\ UNCHANGED handled
       ELSE IF ~reciteratefn THEN
           /\ Log("Iterate", IF ~isIteratorProvided THEN Ev("Iterate", t, TRUE, "nil", NoRec, 0)
                             ELSE Ev("Iterate", t, FALSE, "MissingIterator", NoRec, 0))
           /\ UNCHANGED handled
       ELSE
           /\ handled' = Sweep(cache)
           /\ Log("Iterate", Ev("Iterate", t, TRUE, "nil", NoRec, 0))
    /\ UNCHANGED <<cache, recs, mutex, nrec, cnt, loadfn, reciteratefn, locks, thr, own,
                   obs, nAdd, nDel, cntSet>>

\* an Iterate that does not look at the load-time flag
IterateUnguarded(t, isIteratorProvided) ==
    /\ Idle(t)
    /\ CanWLock
    /\ singletonFlag' = TRUE
    /\ IF ~reciteratefn THEN
           /\ Log("Iterate", IF ~isIteratorProvided THEN Ev("Iterate", t, TRUE, "nil", NoRec, 0)
                             ELSE Ev("Iterate", t, FALSE, "MissingIterator", NoRec, 0))
           /\ UNCHANGED handled
       ELSE
           /\ handled' = Sweep(cache)
           /\ Log("Iterate", Ev("Iterate", t, TRUE, "nil", NoRec, 0))
    /\ UNCHANGED <<cache, recs, mutex, nrec, cnt, loadfn, reciteratefn, locks, thr, own,
                   obs, nAdd, nDel, cntSet>>

\* Iterate(cacheName, isIteratorProvided)
Iterate(t, isIteratorProvided) ==
    /\ Idle(t)
    /\ CanWLock
    /\ singletonFlag' = TRUE
    /\ IF singletonFlag THEN
           /\ Log("Iterate", Ev("Iterate", t, FALSE, "AlreadyLoaded", NoRec, 0))
           /\ UNCHANGED handled
       ELSE IF ~reciteratefn THEN
           /\ Log("Iterate", IF ~isIteratorProvided THEN Ev("Iterate", t, TRUE, "nil", NoRec, 0)
                             ELSE Ev("Iterate", t, FALSE, "MissingIterator", NoRec, 0))
           /\ UNCHANGED handled
       ELSE
           /\ handled' = Sweep(cache)
           /\ Log("Iterate", Ev("Iterate", t, TRUE, "nil", NoRec, 0))
    /\ UNCHANGED <<cache, recs, mutex, nrec, cnt, loadfn, reciteratefn, locks, thr, own,
                   obs, nAdd, nDel, cntSet>>

\* LoadAndIterate(isLoaderProvided, isIteratorProvided)
LoadAndIterate(t, isLoaderProvided, isIteratorProvided, res) ==
    /\ Idle(t)
    /\ CanWLock
    /\ singletonFlag' = TRUE
    /\ IF singletonFlag THEN
           /\ Log("LoadAndIterate", Ev("LoadAndIterate", t, FALSE, "AlreadyLoaded", NoRec, 0))
           /\ UNCHANGED <<cache, recs, nrec, cnt, cntSet, handled>>
       ELSE IF ~loadfn THEN
           /\ Log("LoadAndIterate",
                  IF ~isLoaderProvided THEN Ev("LoadAndIterate", t, TRUE, "nil", NoRec, 0)
                  ELSE Ev("LoadAndIterate", t, FALSE, "MissingLoader", NoRec, 0))
           /\ UNCHANGED <<cache, recs, nrec, cnt, cntSet, handled>>
       ELSE IF ~res.isOK THEN
           /\ Log("LoadAndIterate", Ev("LoadAndIterate", t, FALSE, "LoaderFailed", NoRec, 0))
           /\ UNCHANGED <<cache, recs, nrec, cnt, cntSet, handled>>
       ELSE
           /\ LoadRecs(res.recList)
           /\ IF ~reciteratefn THEN
                  /\ Log("LoadAndIterate",
                         IF ~isIteratorProvided THEN Ev("LoadAndIterate", t, TRUE, "nil", NoRec, 0)
                         ELSE Ev("LoadAndIterate", t, FALSE, "MissingIterator", NoRec, 0))
                  /\ UNCHANGED handled
              ELSE
                  /\ handled' = Sweep(LoadCache(cache, res.recList, 1, nrec))
                  /\ Log("LoadAndIterate", Ev("LoadAndIterate", t, TRUE, "nil", NoRec, 0))
    /\ UNCHANGED <<mutex, loadfn, reciteratefn, locks, thr, own, obs, nAdd, nDel>>

\* AuxIterate(cacheName, recHandler): a nil handler is refused before the
\* store lock is taken; otherwise the write store-lock, then the range loop
AuxIterate(t, hasHandler) ==
    /\ Idle(t)
    /\ IF ~hasHandler THEN
           /\ Log("AuxIterate", Ev("AuxIterate", t, FALSE, "NilArg", NoRec, 0))
           /\ UNCHANGED <<locks, thr>>
       ELSE
           /\ CanWLock
           /\ BlockW(t, "AuxIterate", NoRec, NoKey, FALSE, "idle")
           /\ UNCHANGED last
    /\ UNCHANGED <<cache, recs, mutex, nrec, cnt, life, own, obs, ghost>>

\* one turn of the loop of AuxIterate up to the call of the handler: range
\* yields an entry not yet visited and pRec.RecLock() is called (loc.val: it
\* has returned); with no entry left the method returns
AuxIterateLock(t) ==
    /\ pc[t] = "AuxIterate"
    /\ ~loc[t].val
    /\ IF loc[t].key # NoKey THEN
           \* blocked in pRec.RecLock()
           /\ CanLock(loc[t].rec)
           /\ recLock' = [recLock EXCEPT ![loc[t].rec] = mutexLocked]
           /\ owner' = [owner EXCEPT ![loc[t].rec] = t]
           /\ held' = [held EXCEPT ![t][loc[t].rec] = "AuxIterate"]
           /\ loc' = [loc EXCEPT ![t].val = TRUE]
           /\ UNCHANGED <<pc, locks, last>>
       ELSE IF \A k \in Keys : cache[k] # NoRec => k \in loc[t].vis THEN
           /\ Log("AuxIterate", Ev("AuxIterate", t, TRUE, "nil", NoRec, 0))
           /\ ReturnW(t)
           /\ UNCHANGED <<mutex, held>>
       ELSE
           \E k \in Keys \ loc[t].vis :
               /\ cache[k] # NoRec
               /\ IF CanLock(cache[k]) THEN
                      /\ recLock' = [recLock EXCEPT ![cache[k]] = mutexLocked]
                      /\ owner' = [owner EXCEPT ![cache[k]] = t]
                      /\ held' = [held EXCEPT ![t][cache[k]] = "AuxIterate"]
                      /\ loc' = [loc EXCEPT ![t].key = k, ![t].rec = cache[k], ![t].val = TRUE]
                  ELSE
                      /\ loc' = [loc EXCEPT ![t].key = k, ![t].rec = cache[k]]
                      /\ UNCHANGED <<mutex, held>>
               /\ UNCHANGED <<pc, locks, last>>
    /\ UNCHANGED <<cache, recs, nrec, cnt, life, handles, obs, ghost>>

\* the rest of the turn: recHandler(pRec) returns and pRec.RecUnlock() runs
AuxIterateUnlock(t) ==
    /\ pc[t] = "AuxIterate"
    /\ loc[t].val
    /\ recLock' = [recLock EXCEPT ![loc[t].rec] = UnlockedState(recLock[loc[t].rec])]
    /\ owner' = [owner EXCEPT ![loc[t].rec] = NoThread]
    /\ held' = [held EXCEPT ![t][loc[t].rec] = NotHeld]
    /\ loc' = [loc EXCEPT ![t].key = NoKey, ![t].rec = NoRec, ![t].val = FALSE,
                          ![t].vis = @ \cup {loc[t].key}]
    /\ UNCHANGED <<cache, recs, nrec, cnt, life, locks, pc, handles, obs, last, ghost>>

\* ------------------------------------------------------------------ next
\* the direct lock primitives of the store
StoreLockOps(t) ==
    \/ WriteLock(t)
    \/ WriteUnlock(t)
    \/ ReadLock(t)
    \/ ReadUnlock(t)

\* the self-locking adds
AddOps(t) ==
    \E keyList \in KeyLists, pRec \in Payloads \cup {Nil} :
        \/ \E f \in BOOLEAN : AddRec(t, keyList, pRec, f)
        \/ ForceAddRec(t, keyList, pRec)
        \/ \E f \in BOOLEAN : AddAndGetRec(t, keyList, pRec, f)
        \/ ForceAddAndGetRec(t, keyList, pRec)

\* the adds called under the caller's write store-lock
AddWOLockOps(t) ==
    \E keyList \in KeyLists, pRec \in Payloads \cup {Nil} :
        \/ \E f \in BOOLEAN : AddRecWOLock(t, keyList, pRec, f)
        \/ ForceAddRecWOLock(t, keyList, pRec)
        \/ \E f \in BOOLEAN : AddAndGetRecWOLock(t, keyList, pRec, f)
        \/ ForceAddAndGetRecWOLock(t, keyList, pRec)

ReAddOps(t) ==
    \/ \E k1, k2 \in Keys : ReAddRec(t, k1, k2)
    \/ \E k1, k2 \in Keys : ReAddAndGetRec(t, k1, k2)
    \/ ReAddAndGetRecResume(t)

ReAddWOLockOps(t) ==
    \/ \E k1, k2 \in Keys : ReAddRecWOLock(t, k1, k2)
    \/ \E k1, k2 \in Keys : ReAddAndGetRecWOLock(t, k1, k2)
    \/ ReAddAndGetRecResume(t)

DeleteOps(t) ==
    \/ \E key \in Keys : DeleteKey(t, key)
    \/ \E key \in Keys : DeleteRec(t, key)
    \/ DeleteRecResume(t)
    \/ DeleteCache(t)
    \/ DeleteCacheStep(t)

DeleteWOLockOps(t) ==
    \/ \E key \in Keys : DeleteRecWOLock(t, key)
    \/ DeleteRecResume(t)
    \/ DeleteCacheWOLock(t)
    \/ DeleteCacheStep(t)

\* the lookup that returns a locked record, and its release
GetOps(t) ==
    \/ \E key \in Keys : GetRec(t, key)
    \/ GetRecResume(t)
    \/ \E r \in Recs : RecUnlock(t, r)

GetWOLockOps(t) ==
    \/ \E key \in Keys : GetRecWOLock(t, key)
    \/ GetRecResume(t)
    \/ \E r \in Recs : RecUnlock(t, r)

RecLockOps(t) ==
    \/ \E r \in Recs : RecLock(t, r)
    \/ RecLockResume(t)

ReadOps(t) ==
    \/ \E key \in Keys : GetDataRec(t, key)
    \/ GetDataRecResume(t)
    \/ GetDataRecRead(t)
    \/ \E key \in Keys : DoesKeyExist(t, key)

ReadWOLockOps(t) ==
    \/ \E key \in Keys : GetDataRecWOLock(t, key)
    \/ GetDataRecResume(t)
    \/ GetDataRecRead(t)
    \/ \E key \in Keys : DoesKeyExistWOLock(t, key)

StateOps(t) ==
    \/ \E key \in Keys, v \in BOOLEAN : UpdateRecState(t, key, v)
    \/ UpdateRecStateResume(t)
    \/ UpdateRecStateWrite(t)

StateWOLockOps(t) ==
    \/ \E key \in Keys, v \in BOOLEAN : UpdateRecStateWOLock(t, key, v)
    \/ UpdateRecStateResume(t)
    \/ UpdateRecStateWrite(t)

CntOps(t) ==
    \/ GetCnt(t)
    \/ \E val \in 0..MaxCnt : SetCnt(t, val)

LifeOps(t) ==
    \/ \E f \in BOOLEAN, res \in LoadResults : Load(t, f, res)
    \/ \E f \in BOOLEAN : Iterate(t, f)
    \/ \E f, g \in BOOLEAN, res \in LoadResults : LoadAndIterate(t, f, g, res)

AuxOps(t) ==
    \/ \E h \in BOOLEAN : AuxIterate(t, h)
    \/ AuxIterateLock(t)
    \/ AuxIterateUnlock(t)

\* every method of the package
Next ==
    \E t \in Threads :
        \/ StoreLockOps(t)
        \/ AddOps(t) \/ AddWOLockOps(t)
        \/ ReAddOps(t) \/ ReAddWOLockOps(t)
        \/ DeleteOps(t) \/ DeleteWOLockOps(t)
        \/ GetOps(t) \/ GetWOLockOps(t)
        \/ RecLockOps(t)
        \/ ReadOps(t) \/ ReadWOLockOps(t)
        \/ StateOps(t) \/ StateWOLockOps(t)
        \/ CntOps(t)
        \/ LifeOps(t)
        \/ AuxOps(t)

\* Create(nil, nil), no method observed
Init == InitStore /\ obs = {} /\ ~loadfn /\ ~reciteratefn

Spec == Init /\ [][Next]_vars

\* the self-locking adds, re-adds and deletes of keys and of records, the
\* lookup that returns a locked record and the release of a record
CoreOps(t) ==
    \/ \E keyList \in KeyLists, pRec \in Payloads \cup {Nil}, f \in BOOLEAN :
           AddRec(t, keyList, pRec, f) \/ AddAndGetRec(t, keyList, pRec, f)
    \/ ReAddOps(t)
    \/ \E key \in Keys : DeleteKey(t, key) \/ DeleteRec(t, key)
    \/ DeleteRecResume(t)
    \/ GetOps(t)

NextCore == \E t \in Threads : CoreOps(t)

SpecCore == Init /\ [][NextCore]_vars

\* --------------------------------------------------------------- claims
\* a step of DeleteRec by goroutine t on a key of record r: the call, or the
\* return of its rendezvous
DeleteRecOf(t, r) ==
    \/ \E key \in Keys : cache[key] = r /\ DeleteRec(t, key)
    \/ pc[t] = "DeleteRec" /\ loc[t].rec = r /\ DeleteRecResume(t)

\* the keys of the alias list of record r
Aliases(r) == {KeyList[r][i] : i \in 1..Len(KeyList[r])}

\* C1: while goroutine A holds a record obtained from GetRec and has not
\* released it, a DeleteRec of another goroutine on a key of that record
\* neither returns nor removes a key; a DeleteRec that has returned leaves no
\* key of the alias list of the record in the map
C1_DeleteWaitsForHolder ==
    [][\A t \in Threads, r \in Recs :
         DeleteRecOf(t, r) =>
             /\ (\E u \in Threads \ {t} : held[u][r] = "GetRec")
                    => (pc'[t] = "DeleteRec" /\ cache' = cache)
             /\ pc'[t] = "idle" => \A k \in Aliases(r) : cache'[k] = NoRec]_vars

\* the origins of a lock held from a lookup or an AndGet add or re-add
OpenGets == {"GetRec", "AndGet"}

\* C2: no step of a method removes from the map, or maps to another record,
\* a key of a record whose lock a goroutine other than the caller of the
\* method holds from a GetRec, an AddAndGet or a ReAddAndGet it has not
\* released
C2_NoUnlinkWhileHeld ==
    [][\A t \in Threads :
         CoreOps(t) =>
             \A k \in Keys, u \in Threads \ {t} :
                 (cache[k] # NoRec /\ held[u][cache[k]] \in OpenGets)
                     => cache'[k] = cache[k]]_vars

\* the keys that map to record r
KeysOf(r) == {k \in Keys : cache[k] = r}

\* C3: for every record of the store, the keys that map to it are exactly
\* the keys of its alias list
C3_AliasSymmetry ==
    \A r \in 1..nrec : KeysOf(r) # {} => KeysOf(r) = Aliases(r)

\* a step in which GetRec returns record r to goroutine u: the call, or the
\* return of the Lock() it was blocked in
GetRecOf(u, r) ==
    \/ \E key \in Keys : cache[key] = r /\ GetRec(u, key) /\ pc'[u] = "idle"
    \/ pc[u] = "GetRec" /\ loc[u].rec = r /\ GetRecResume(u)

\* C6: an AndGet add or re-add returns its record with the lock set and held
\* by the caller, and until the caller releases the record no GetRec of
\* another goroutine returns it
C6_AndGetExcludesGet ==
    [][\A t \in Threads, r \in Recs :
         /\ (held[t][r] # "AndGet" /\ held'[t][r] = "AndGet")
                => (recLock'[r] = mutexLocked /\ owner'[r] = t)
         /\ held[t][r] = "AndGet"
                => \A u \in Threads \ {t} : ~GetRecOf(u, r)]_vars

\* C10: a DeleteRec that returns success removes every key that maps to the
\* record of its key and takes one off the counter, and leaves the keys that
\* map to other records as they are
C10_DeleteRecRemovesOnlyItsAliases ==
    [][\A t \in Threads, r \in Recs :
         (DeleteRecOf(t, r) /\ pc'[t] = "idle") =>
             /\ \A k \in Keys : cache[k] = r => cache'[k] = NoRec
             /\ cnt' = cnt - 1
             /\ \A k \in Keys : cache[k] # r => cache'[k] = cache[k]]_vars

\* Create(nil, nil), the adds with an existence check observed
InitAdd == InitStore /\ obs = {"AddRec", "AddAndGetRec"} /\ ~loadfn /\ ~reciteratefn

\* the adds of a payload with a choice of existence check, among the methods
\* that map and unmap keys
NextAdd ==
    \E t \in Threads :
        \/ \E keyList \in KeyLists, pRec \in Payloads, f \in BOOLEAN :
               AddRec(t, keyList, pRec, f) \/ AddAndGetRec(t, keyList, pRec, f)
        \/ \E k1, k2 \in Keys : ReAddRec(t, k1, k2)
        \/ \E key \in Keys : DeleteKey(t, key) \/ DeleteRec(t, key)
        \/ DeleteRecResume(t)
        \/ \E r \in Recs : RecUnlock(t, r)

SpecAdd == InitAdd /\ [][NextAdd]_vars

\* a step of AddRec or AddAndGetRec called by goroutine t with a payload and
\* the existence check (the first conjunct holds of every such step)
AddWithCheck(t, keyList, pRec) ==
    /\ last'.t = t /\ pc[t] = "idle"
    /\ AddRec(t, keyList, pRec, TRUE) \/ AddAndGetRec(t, keyList, pRec, TRUE)

\* C5: AddRec and AddAndGetRec called with a payload and the existence check
\* fail with the key-exists error exactly when one of the keys of the call is
\* mapped, and a call that fails so changes neither the map nor an alias
\* list nor the counter
C5_ExistenceCheck ==
    [][\A t \in Threads, keyList \in KeyLists, pRec \in Payloads :
         AddWithCheck(t, keyList, pRec) =>
             /\ (last'.err = "KeyExists")
                    <=> (\E i \in 1..Len(keyList) : cache[keyList[i]] # NoRec)
             /\ last'.err = "KeyExists"
                    => (~last'.ok /\ cache' = cache /\ KeyList' = KeyList /\ cnt' = cnt)
             /\ last'.err # "KeyExists" => last'.ok]_vars

\* an add with two keys has failed on the existence check with only its
\* second key mapped
C5_Witness ==
    /\ last.op \in {"AddRec", "AddAndGetRec"}
    /\ last.err = "KeyExists"
    /\ \E k1, k2 \in Keys : k1 # k2 /\ cache[k1] = NoRec /\ cache[k2] # NoRec

\* Create(nil, nil), GetRec observed
InitGet == InitStore /\ obs = {"GetRec"} /\ ~loadfn /\ ~reciteratefn

\* GetRec and RecUnlock among the self-locking methods that lock and unlock
\* records inside (the deletes, the payload lookup, the sweep of
\* AuxIterate), with the add that fills the map
NextGet ==
    \E t \in Threads :
        \/ \E keyList \in KeyLists, pRec \in Payloads, f \in BOOLEAN :
               AddRec(t, keyList, pRec, f)
        \/ DeleteOps(t)
        \/ GetOps(t)
        \/ \E key \in Keys : GetDataRec(t, key)
        \/ GetDataRecResume(t)
        \/ GetDataRecRead(t)
        \/ AuxOps(t)

SpecGet == InitGet /\ [][NextGet]_vars

\* C7: GetRec of a key that is not mapped returns failure and no record and
\* takes no lock; GetRec of a mapped key returns the record the key maps to
\* with the lock of the record set and held by the caller; and the hold of a
\* caller of GetRec on the lock ends in a RecUnlock only, never in a step of
\* a method of the store
C7_GetRecReturnsLocked ==
    [][/\ \A t \in Threads, key \in Keys :
            (last'.t = t /\ cache[key] = NoRec /\ GetRec(t, key)) =>
                /\ ~last'.ok /\ last'.rec = NoRec
                /\ pc'[t] = "idle"
                /\ UNCHANGED <<recLock, owner, held>>
       /\ \A t \in Threads, r \in Recs :
            (last'.t = t /\ GetRecOf(t, r)) =>
                /\ last'.ok /\ last'.rec = r
                /\ \E key \in Keys : cache'[key] = r
                /\ recLock'[r] = mutexLocked /\ owner'[r] = t
                /\ held'[t][r] = "GetRec"
       /\ \A t \in Threads, r \in Recs :
            (owner[r] = t /\ held[t][r] = "GetRec" /\ owner'[r] # t) =>
                \E u \in Threads : RecUnlock(u, r)]_vars

\* a goroutine holds the record its GetRec returned while a DeleteRec of
\* another goroutine waits for the lock of that record
C7_Witness ==
    /\ last.op = "GetRec" /\ last.ok
    /\ owner[last.rec] = last.t
    /\ held[last.t][last.rec] = "GetRec"
    /\ \E u \in Threads \ {last.t} : pc[u] = "DeleteRec" /\ loc[u].rec = last.rec

\* the adds and the whole-record deletes in their two forms, the second
\* under the write store-lock of the caller, with the re-add and the delete
\* of a key
NextCount ==
    \E t \in Threads :
        \/ WriteLock(t)
        \/ WriteUnlock(t)
        \/ \E keyList \in KeyLists, pRec \in Payloads, f \in BOOLEAN :
               \/ AddRec(t, keyList, pRec, f)
               \/ AddAndGetRec(t, keyList, pRec, f)
               \/ AddRecWOLock(t, keyList, pRec, f)
        \/ \E k1, k2 \in Keys : ReAddRec(t, k1, k2)
        \/ \E key \in Keys :
               DeleteKey(t, key) \/ DeleteRec(t, key) \/ DeleteRecWOLock(t, key)
        \/ DeleteRecResume(t)
        \/ \E r \in Recs : RecUnlock(t, r)

SpecCount == Init /\ [][NextCount]_vars

\* C4: as long as neither Load nor SetCnt has set the counter, the counter
\* is the number of adds that returned success less the number of
\* whole-record deletes that returned success
C4_CounterIsAddsLessDeletes ==
    ~cntSet => cnt = nAdd - nDel

\* Create with each choice of loader and of iteration handler, Load observed
InitLife == InitStore /\ obs = {"Load"}

\* the load-time methods, with the add, the re-add and the delete of a key
NextLife ==
    \E t \in Threads :
        \/ LifeOps(t)
        \/ \E keyList \in KeyLists, pRec \in Payloads, f \in BOOLEAN :
               AddRec(t, keyList, pRec, f)
        \/ \E k1, k2 \in Keys : ReAddRec(t, k1, k2)
        \/ \E key \in Keys : DeleteKey(t, key)

SpecLife == InitLife /\ [][NextLife]_vars

\* C8: once a call of Load has returned, every call of Load fails with the
\* already-loaded error
C8_LoadOnce ==
    [][\A t \in Threads :
         (last.op = "Load" /\ last'.t = t
              /\ \E f \in BOOLEAN, res \in LoadResults : Load(t, f, res))
             => (~last'.ok /\ last'.err = "AlreadyLoaded")]_vars

\* C9: the sweep of a successful Iterate or LoadAndIterate calls the handler
\* once for every record that a key maps to, and for no other record
C9_HandlerOncePerRecord ==
    [][handled' # handled =>
         \A r \in Recs :
             handled'[r] = handled[r] + (IF \E k \in Keys : cache'[k] = r THEN 1 ELSE 0)]_vars

\* the records that at least one key maps to
Reachable == {r \in Recs : \E k \in Keys : cache[k] = r}

\* C11: in a run without SetCnt the counter is the number of records that at
\* least one key of the map maps to
C11_CounterIsReachableRecords ==
    cnt = Cardinality(Reachable)

\* Create(nil, nil), the methods that add and remove single aliases observed
InitAlias ==
    /\ InitStore
    /\ obs = {"DeleteKey", "ReAddRec", "ReAddRecWOLock", "GetDataRec"}
    /\ ~loadfn /\ ~reciteratefn

\* adds, re-adds in both forms, single-key deletes and payload reads
NextAlias ==
    \E t \in Threads :
        \/ \E keyList \in KeyLists, pRec \in Payloads, f \in BOOLEAN :
               AddRec(t, keyList, pRec, f)
        \/ \E k1, k2 \in Keys : ReAddRec(t, k1, k2) \/ ReAddRecWOLock(t, k1, k2)
        \/ WriteLock(t) \/ WriteUnlock(t)
        \/ \E key \in Keys : DeleteKey(t, key) \/ GetDataRec(t, key)
        \/ GetDataRecRead(t)

SpecAlias == InitAlias /\ [][NextAlias]_vars

\* C12: DeleteKey(key) takes the entry of key out of the map and nothing
\* else: every other key maps to the record it mapped to, so the record key
\* pointed at is still reached through each of its other keys, and the
\* counter, the alias lists and the payloads are as before
C12_DeleteKeyRemovesOneEntry ==
    [][\A t \in Threads, key \in Keys :
         (last'.t = t /\ DeleteKey(t, key)) =>
             /\ cache'[key] = NoRec
             /\ \A x \in Keys \ {key} : cache'[x] = cache[x]
             /\ \A x \in Keys \ {key} :
                    (cache[key] # NoRec /\ cache[x] = cache[key]) => cache'[x] = cache[key]
             /\ cnt' = cnt
             /\ KeyList' = KeyList /\ PDataRec' = PDataRec]_vars

\* DeleteKey has returned and a record that had two keys is reached through
\* one of them only
C12_Witness ==
    /\ last.op = "DeleteKey"
    /\ \E r \in Recs, i, j \in 1..MaxKeyListLen :
           /\ i <= Len(KeyList[r]) /\ j <= Len(KeyList[r])
           /\ cache[KeyList[r][i]] = NoRec
           /\ cache[KeyList[r][j]] = r

\* C13: a DeleteCache that returns leaves the map empty, and while it runs
\* it removes no key of a record that another goroutine obtained locked and
\* has not released (among self-locking methods a record is obtained locked
\* under the read store-lock only, so such a hold dates from before the call)
C13_DeleteCacheWaitsForHolders ==
    [][\A t \in Threads :
         pc[t] = "DeleteCache" =>
             /\ pc'[t] = "idle" => \A k \in Keys : cache'[k] = NoRec
             /\ \A k \in Keys :
                    (cache[k] # NoRec /\ cache'[k] = NoRec)
                        => \A u \in Threads \ {t} : held[u][cache[k]] = NotHeld]_vars

\* Create(nil, nil); nothing is recorded
InitObserve == InitStore /\ obs = {} /\ ~loadfn /\ ~reciteratefn

\* the whole-record and whole-map deletes among the lookups that read the map
\* under the read store-lock (UpdateRecState clearing the flag), with the
\* checked add that fills the map
NextObserve ==
    \E t \in Threads :
        \/ \E keyList \in KeyLists, pRec \in Payloads :
               AddRec(t, keyList, pRec, TRUE)
        \/ \E key \in Keys : DeleteRec(t, key)
        \/ DeleteRecResume(t)
        \/ DeleteCache(t)
        \/ DeleteCacheStep(t)
        \/ GetOps(t)
        \/ \E key \in Keys : GetDataRec(t, key) \/ DoesKeyExist(t, key)
        \/ GetDataRecResume(t)
        \/ GetDataRecRead(t)
        \/ \E key \in Keys : UpdateRecState(t, key, FALSE)
        \/ UpdateRecStateResume(t)
        \/ UpdateRecStateWrite(t)

SpecObserve == InitObserve /\ [][NextObserve]_vars

\* the map lookup of GetRec, GetDataRec, DoesKeyExist or UpdateRecState
\* called by goroutine u
LooksUp(u) ==
    \E key \in Keys :
        \/ GetRec(u, key)
        \/ GetDataRec(u, key)
        \/ DoesKeyExist(u, key)
        \/ \E recState \in BOOLEAN : UpdateRecState(u, key, recState)

\* C14: between the start and the return of a DeleteRec or a DeleteCache no
\* GetRec, GetDataRec, DoesKeyExist or UpdateRecState of another goroutine
\* looks a key up, so none of them sees the map with a part of the keys of
\* that call removed
C14_NoLookupDuringDelete ==
    [][\A t \in Threads, u \in Threads :
         (t # u /\ pc[t] \in {"DeleteRec", "DeleteCache"} /\ pc[u] = "idle")
             => ~LooksUp(u)]_vars

\* a DeleteCache has removed one key of a record of two keys and not yet the
\* other, while the other goroutine is free to call a lookup
C14_Witness ==
    \E t \in Threads, u \in Threads, r \in Recs :
        /\ t # u
        /\ pc[t] = "DeleteCache" /\ pc[u] = "idle"
        /\ nDel = 0
        /\ Len(KeyList[r]) = 2
        /\ cache[KeyList[r][1]] = NoRec
        /\ cache[KeyList[r][2]] = r

\* a step of ReAddRec or ReAddRecWOLock called by goroutine t
ReAddOf(t, originalKey, newKey) ==
    /\ last'.t = t
    /\ ReAddRec(t, originalKey, newKey) \/ ReAddRecWOLock(t, originalKey, newKey)

\* C15: ReAddRec and ReAddRecWOLock of an originalKey that is not mapped fail
\* with the missing-key error and change neither the map nor an alias list
\* nor the counter; otherwise they succeed, allocate no record, leave the
\* counter, append newKey to the alias list of the record of originalKey and
\* of no other record, and map newKey to that record, whose payload is the
\* one a lookup of newKey then reads
C15_ReAddAliases ==
    [][\A t \in Threads, originalKey \in Keys, newKey \in Keys :
         ReAddOf(t, originalKey, newKey) =>
             IF cache[originalKey] = NoRec THEN
                 /\ ~last'.ok /\ last'.err = "KeyNotFound"
                 /\ cache' = cache /\ KeyList' = KeyList /\ cnt' = cnt
             ELSE
                 LET r == cache[originalKey]
                 IN  /\ last'.ok
                     /\ nrec' = nrec /\ cnt' = cnt
                     /\ KeyList'[r] = Append(KeyList[r], newKey)
                     /\ \A q \in Recs \ {r} : KeyList'[q] = KeyList[q]
                     /\ cache'[newKey] = r /\ cache'[originalKey] = r
                     /\ \A x \in Keys \ {newKey} : cache'[x] = cache[x]
                     /\ PDataRec'[cache'[newKey]] = PDataRec[r]]_vars

\* a re-add has succeeded on the only record of the store, which is now
\* reached through its first key and through the key that was appended
C15_Witness ==
    /\ last.op \in {"ReAddRec", "ReAddRecWOLock"}
    /\ last.ok
    /\ nrec = 1
    /\ Len(KeyList[1]) = 2
    /\ KeyList[1][1] # KeyList[1][2]
    /\ cache[KeyList[1][1]] = 1 /\ cache[KeyList[1][2]] = 1

\* C16: an AddRec called with a payload and the existence check that
\* succeeds allocates one record, active, with its payload and alias list,
\* whose lock is free and which no goroutine holds or has a pointer to; maps
\* every key of the call to that record and leaves every other key and every
\* other record as they were; adds one to the counter and returns it
C16_AddCreatesOneRecord ==
    [][\A t \in Threads, keyList \in KeyLists, pRec \in Payloads :
         (last'.t = t /\ pc[t] = "idle" /\ AddRec(t, keyList, pRec, TRUE) /\ last'.ok) =>
             LET r == nrec + 1
             IN  /\ nrec' = r
                 /\ \A k \in Keys : cache[k] # r
                 /\ isActive'[r] /\ PDataRec'[r] = pRec /\ KeyList'[r] = keyList
                 /\ recLock'[r] = 0 /\ owner'[r] = NoThread
                 /\ \A u \in Threads : held'[u][r] = NotHeld /\ r \notin handles'[u]
                 /\ \A i \in 1..Len(keyList) : cache'[keyList[i]] = r
                 /\ \A x \in Keys :
                        (\A i \in 1..Len(keyList) : keyList[i] # x) => cache'[x] = cache[x]
                 /\ \A q \in Recs \ {r} :
                        /\ KeyList'[q] = KeyList[q] /\ PDataRec'[q] = PDataRec[q]
                        /\ isActive'[q] = isActive[q] /\ recLock'[q] = recLock[q]
                 /\ cnt' = cnt + 1
                 /\ last'.cnt = cnt']_vars

\* AddRec has returned the counter after adding the first record of the
\* store with two keys, both of which map to it
C16_Witness ==
    /\ last.op = "AddRec" /\ last.ok /\ last.cnt = cnt
    /\ nrec = 1 /\ cnt = 1
    /\ Len(KeyList[1]) = 2
    /\ cache[KeyList[1][1]] = 1 /\ cache[KeyList[1][2]] = 1
    /\ recLock[1] = 0 /\ isActive[1]

\* a step of goroutine t that may be a Load called before the load-time flag
\* is set (every such Load satisfies it)
MayBeFirstLoad(t) ==
    /\ ~singletonFlag /\ pc[t] = "idle"
    /\ last'.t = t /\ last'.op = "Load"
    /\ singletonFlag' = ~reciteratefn
    /\ handled' = handled /\ nAdd' = nAdd

\* C17: a Load that passes the load-time flag returns success when no
\* loader is registered and isLoaderProvided is false, the missing-loader
\* error when none is registered and isLoaderProvided is true, and the
\* loader-failed error when the loader returns false; in the three cases the
\* map, the records and the counter are as before, whatever list the loader
\* returned
C17_LoadWithoutResult ==
    [][\A t \in Threads :
         MayBeFirstLoad(t) =>
             \A isLoaderProvided \in BOOLEAN, res \in LoadResults :
                 ((~loadfn \/ ~res.isOK) /\ Load(t, isLoaderProvided, res)) =>
                     /\ (~loadfn /\ ~isLoaderProvided) => last'.ok
                     /\ (~loadfn /\ isLoaderProvided)
                            => (~last'.ok /\ last'.err = "MissingLoader")
                     /\ (loadfn /\ ~res.isOK)
                            => (~last'.ok /\ last'.err = "LoaderFailed")
                     /\ cache' = cache /\ cnt' = cnt /\ nrec' = nrec
                     /\ KeyList' = KeyList /\ PDataRec' = PDataRec
                     /\ isActive' = isActive]_vars

\* Load has returned the loader-failed error on a store with a mapped key
\* and a counter of one
C17_Witness ==
    /\ last.op = "Load" /\ ~last.ok /\ last.err = "LoaderFailed"
    /\ cnt = 1
    /\ \E k \in Keys : cache[k] # NoRec

\* what the loader returns in the workload of Load alone: lists of up to
\* MaxPairs pairs, which may have keys in common
PairResults ==
    [isOK : BOOLEAN, recList : UNION {[1..n -> PayloadRecs] : n \in 0..MaxPairs}]

\* Create(loadFunc, iteratorFunc) with a loader, and with or without an
\* iterator; the returns of Load observed
InitPairs == InitStore /\ obs = {"Load"} /\ loadfn

\* Load with the adds and the deletes of a key around it
NextPairs ==
    \E t \in Threads :
        \/ \E f \in BOOLEAN, res \in PairResults : Load(t, f, res)
        \/ \E keyList \in KeyLists, pRec \in Payloads, f \in BOOLEAN :
               AddRec(t, keyList, pRec, f)
        \/ \E key \in Keys : DeleteKey(t, key)

SpecPairs == InitPairs /\ [][NextPairs]_vars

\* C18: a Load that succeeds on the n pairs its loader returned allocates n
\* records, one per pair with the pair's payload and alias list, active and
\* with a free lock, maps every key of a pair to the record of that pair,
\* and sets the counter to n
C18_LoadOneRecordPerPair ==
    [][\A t \in Threads :
         (~singletonFlag /\ loadfn /\ last'.t = t /\ last'.ok /\ nAdd' = nAdd) =>
             \A f \in BOOLEAN, res \in PairResults :
                 (res.isOK /\ Load(t, f, res)) =>
                     LET n == Len(res.recList)
                     IN  /\ nrec' = nrec + n
                         /\ cnt' = n
                         /\ \A i \in 1..n :
                                LET r == nrec + i
                                    pair == res.recList[i]
                                IN  /\ isActive'[r] /\ recLock'[r] = 0
                                    /\ PDataRec'[r] = pair.PDataRec
                                    /\ KeyList'[r] = pair.KeyList
                                    /\ \A j \in 1..Len(pair.KeyList) :
                                           cache'[pair.KeyList[j]] = r]_vars

\* a step of goroutine t in which Load or LoadAndIterate calls loadfn: the
\* load-time flag is not set and a loader is registered
InvokesLoader(t) ==
    /\ ~singletonFlag /\ loadfn /\ pc[t] = "idle"
    /\ \/ \E f \in BOOLEAN, res \in LoadResults : Load(t, f, res)
       \/ \E f, g \in BOOLEAN, res \in LoadResults : LoadAndIterate(t, f, g, res)

\* C19: over the calls of Load and LoadAndIterate on a store the loader is
\* called at most once: once a call of the loader has returned true (in this
\* workload cnt is assigned by such a load only), no later step calls it
C19_LoaderInvokedOnce ==
    [][\A t \in Threads : cntSet => ~InvokesLoader(t)]_vars

\* C20: over the calls of Load, Iterate and LoadAndIterate on a store the
\* sweep that applies the iteration handler runs at most once: the step in
\* which the handler is called sets the load-time flag, the flag once set
\* stays set, and while it is set no step calls the handler
C20_SweepOnce ==
    [][/\ singletonFlag => (singletonFlag' /\ handled' = handled)
       /\ handled' # handled => singletonFlag']_vars

\* the sweep has called the handler and a later Load has been refused
C20_Witness ==
    /\ singletonFlag
    /\ \E r \in Recs : handled[r] > 0
    /\ last.op = "Load" /\ last.err = "AlreadyLoaded"

\* Create(loadFunc, iteratorFunc) for the four combinations of callbacks; the
\* returns of the three load-time methods observed
InitCompose == InitStore /\ obs = {"Load", "Iterate", "LoadAndIterate"}

SpecCompose == InitCompose /\ [][NextLife]_vars

\* the maps, counters and handler-call counts a load-time method can leave
CacheStores == [Keys -> Recs \cup {NoRec}]
Counts == 0..MaxRecs
HandlerCalls == [Recs -> 0..Cardinality(Keys)]

\* LoadAndIterate(f, g) called by t in the current state returns ok and
\* leaves singletonFlag = fl / the map c and cnt = n / the handler calls h
LoadAndIterateReturns(t, f, g, res, ok, fl) ==
    ENABLED (LoadAndIterate(t, f, g, res) /\ last'.ok = ok /\ singletonFlag' = fl)

LoadAndIterateStores(t, f, g, res, c, n) ==
    ENABLED (LoadAndIterate(t, f, g, res) /\ cache' = c /\ cnt' = n)

LoadAndIterateHandles(t, f, g, res, h) ==
    ENABLED (LoadAndIterate(t, f, g, res) /\ handled' = h)

\* the same of Load(f) called by t in the current state and followed, when
\* it returned success, by Iterate(g)
LoadThenIterateReturns(t, f, g, res, ok, fl) ==
    ENABLED (/\ Load(t, f, res)
             /\ (IF last.ok
                 THEN ENABLED (Iterate(t, g) /\ last'.ok = ok /\ singletonFlag' = fl)
                 ELSE last.ok = ok /\ singletonFlag = fl)')

LoadThenIterateStores(t, f, g, res, c, n) ==
    ENABLED (/\ Load(t, f, res)
             /\ (IF last.ok
                 THEN ENABLED (Iterate(t, g) /\ cache' = c /\ cnt' = n)
                 ELSE cache = c /\ cnt = n)')

LoadThenIterateHandles(t, f, g, res, h) ==
    ENABLED (/\ Load(t, f, res)
             /\ (IF last.ok
                 THEN ENABLED (Iterate(t, g) /\ handled' = h)
                 ELSE handled = h)')

\* C21: on a store whose load-time flag is not set, LoadAndIterate(f, g)
\* ends with the same map, counter, load-time flag, handler calls and
\* success or failure as Load(f) followed, when Load succeeds, by Iterate(g),
\* whichever callbacks are registered and whatever the loader returns
C21_LoadAndIterateIsLoadThenIterate ==
    (~singletonFlag /\ wr = NoThread /\ rd = {}) =>
        \A t \in Threads, f, g \in BOOLEAN, res \in LoadResults :
            /\ \A ok, fl \in BOOLEAN :
                   LoadAndIterateReturns(t, f, g, res, ok, fl)
                       <=> LoadThenIterateReturns(t, f, g, res, ok, fl)
            /\ \A c \in CacheStores, n \in Counts :
                   LoadAndIterateStores(t, f, g, res, c, n)
                       <=> LoadThenIterateStores(t, f, g, res, c, n)
            /\ \A h \in HandlerCalls :
                   LoadAndIterateHandles(t, f, g, res, h)
                       <=> LoadThenIterateHandles(t, f, g, res, h)

\* C22: a goroutine inside AuxIterate holds the write store-lock; while the
\* handler runs on a record the lock of that record is locked and it was
\* this goroutine that locked it; between two handler calls the goroutine
\* holds no record through AuxIterate
C22_AuxIterateHoldsBothLocks ==
    \A t \in Threads :
        pc[t] = "AuxIterate" =>
            /\ wr = t
            /\ loc[t].val =>
                   (recLock[loc[t].rec] = mutexLocked /\ owner[loc[t].rec] = t)
            /\ ~loc[t].val => \A r \in Recs : held[t][r] # "AuxIterate"

\* Create(nil, nil), the returns of UpdateRecState in both forms observed
InitState ==
    /\ InitStore
    /\ obs = {"UpdateRecState", "UpdateRecStateWOLock"}
    /\ ~loadfn /\ ~reciteratefn

\* UpdateRecState in both forms among GetRec and RecUnlock, which lock and
\* unlock the records it writes, with the add that fills the map
NextState ==
    \E t \in Threads :
        \/ \E keyList \in KeyLists, pRec \in Payloads :
               AddRec(t, keyList, pRec, TRUE)
        \/ GetOps(t)
        \/ StateOps(t)
        \/ StateWOLockOps(t)
        \/ WriteLock(t) \/ WriteUnlock(t)

SpecState == InitState /\ [][NextState]_vars
UpdateRecStateOf(t, key, recState) ==
    UpdateRecState(t, key, recState) \/ UpdateRecStateWOLock(t, key, recState)

InUpdateRecState(t) == pc[t] \in {"UpdateRecState", "UpdateRecStateWOLock"}

\* C23: UpdateRecState and UpdateRecStateWOLock called by the goroutine that
\* has the record of the key locked do not return and write nothing: the
\* goroutine waits in Lock(); while the record stays locked a goroutine
\* waiting there neither returns nor releases anything (it stays where it is
\* or the process ends), so that the lock is freed by a step of another
\* goroutine or not at all
C23_UpdateRecStateBlocksOnOwnLock ==
    [][\A t \in Threads :
         /\ \A key \in Keys, recState \in BOOLEAN :
                (/\ cache[key] # NoRec
                 /\ recLock[cache[key]] = mutexLocked /\ owner[cache[key]] = t
                 /\ UpdateRecStateOf(t, key, recState))
                    => (/\ InUpdateRecState(t)'
                        /\ loc'[t].rec = cache[key]
                        /\ isActive' = isActive /\ mutex' = mutex)
         /\ (InUpdateRecState(t) /\ recLock[loc[t].rec] = mutexLocked)
                => (/\ pc'[t] = pc[t] \/ pc'[t] = "fatal"
                    /\ loc'[t] = loc[t] /\ held'[t] = held[t])]_vars

\* a goroutine waits in UpdateRecState for the lock of a record that it
\* locked itself through GetRec
C23_Witness ==
    \E t \in Threads :
        /\ InUpdateRecState(t)
        /\ recLock[loc[t].rec] = mutexLocked
        /\ owner[loc[t].rec] = t
        /\ held[t][loc[t].rec] = "GetRec"

\* goroutine t is between Lock() and Unlock() of the lock of record r in
\* UpdateRecState
WritesState(t, r) == pc[t] = "UpdateRecStateWrite" /\ loc[t].rec = r

\* C24: UpdateRecState of a key that is not mapped returns false and changes
\* nothing; of a mapped key it writes recState to the flag of the record of
\* the key and to nothing else, leaves the lock of that record free and
\* returns true; and two calls are never both between Lock() and Unlock() of
\* the same record, so that the flag is the value of the call that took the
\* lock last
C24_UpdateRecStateWritesAlone ==
    [][\A t \in Threads :
         /\ \A key \in Keys, recState \in BOOLEAN :
                (cache[key] = NoRec /\ pc[t] = "idle" /\ UpdateRecState(t, key, recState))
                    => (/\ ~last'.ok /\ last'.t = t
                        /\ isActive' = isActive /\ mutex' = mutex)
         /\ (pc[t] = "UpdateRecStateWrite" /\ UpdateRecStateWrite(t))
                => (/\ isActive' = [isActive EXCEPT ![loc[t].rec] = loc[t].val]
                    /\ recLock'[loc[t].rec] = 0
                    /\ pc'[t] = loc[t].mode
                    /\ last'.ok /\ last'.t = t
                    /\ cache' = cache /\ cnt' = cnt
                    /\ KeyList' = KeyList /\ PDataRec' = PDataRec)
         /\ \A u \in Threads \ {t}, r \in Recs : ~(WritesState(t, r) /\ WritesState(u, r))]_vars


\* ------------------------------------------------------- RecUnlock, in steps
\* an unlock that does not inspect the state word
IsLockedAlways(state) == TRUE

\* isLocked := (state.Int() & mutexLocked) == mutexLocked
IsLocked(state) == state = mutexLocked

\* RecUnlock reads the state word of the mutex of a *Rec the goroutine has;
\* the read and the Unlock() that depends on it are two steps, and steps of
\* other goroutines come between them
RecUnlockInspect(t, r) ==
    /\ Free(t)
    /\ r \in handles[t]
    /\ pc' = [pc EXCEPT ![t] = "RecUnlock"]
    /\ loc' = [loc EXCEPT ![t] = [NoLoc EXCEPT !.rec = r, !.val = IsLocked(recLock[r]),
                                                !.mode = pc[t]]]
    /\ UNCHANGED <<cache, recs, mutex, nrec, cnt, life, locks, own, obs, last, ghost>>

\* the rest of RecUnlock: pRecLock.Unlock() if isLocked was read true, which
\* ends the process when the mutex is not locked any more; the message only
\* otherwise
RecUnlockAct(t) ==
    /\ pc[t] = "RecUnlock"
    /\ IF ~loc[t].val THEN
           /\ pc' = [pc EXCEPT ![t] = loc[t].mode]
           /\ loc' = [loc EXCEPT ![t] = NoLoc]
           /\ Log("RecUnlock", Ev("RecUnlock", t, FALSE, "nil", loc[t].rec, 0))
           /\ UNCHANGED <<mutex, held>>
       ELSE IF recLock[loc[t].rec] = mutexLocked THEN
           /\ recLock' = [recLock EXCEPT ![loc[t].rec] = 0]
           /\ owner' = [owner EXCEPT ![loc[t].rec] = NoThread]
           /\ held' = [held EXCEPT ![t][loc[t].rec] = NotHeld]
           /\ pc' = [pc EXCEPT ![t] = loc[t].mode]
           /\ loc' = [loc EXCEPT ![t] = NoLoc]
           /\ Log("RecUnlock", Ev("RecUnlock", t, TRUE, "nil", loc[t].rec, 0))
       ELSE
           /\ pc' = [u \in Threads |-> "fatal"]
           /\ UNCHANGED <<mutex, held, loc, last>>
    /\ UNCHANGED <<cache, recs, nrec, cnt, life, locks, handles, obs, ghost>>

InitUnlock == InitStore /\ obs = {"RecUnlock"} /\ ~loadfn /\ ~reciteratefn

\* goroutines that add records, look them up, lock them and unlock them, as
\* often as they like
NextUnlock ==
    \E t \in Threads :
        \/ \E keyList \in KeyLists, pRec \in Payloads : AddRec(t, keyList, pRec, TRUE)
        \/ \E key \in Keys : GetRec(t, key)
        \/ GetRecResume(t)
        \/ \E r \in Recs : RecLock(t, r)
        \/ RecLockResume(t)
        \/ \E r \in Recs : RecUnlockInspect(t, r)
        \/ RecUnlockAct(t)

SpecUnlock == InitUnlock /\ [][NextUnlock]_vars

\* C25: a RecUnlock that finds the lock of the record not set reads isLocked
\* false and leaves the lock as it is, and a RecUnlock that read isLocked
\* false returns without touching the lock, the store or any other goroutine
\* and without ending the process, whatever other goroutines, unlocking the
\* same record among them, did in between
C25_RecUnlockOfUnlockedIsNoOp ==
    [][\A t \in Threads :
          /\ \A r \in Recs :
                 (recLock[r] # mutexLocked /\ RecUnlockInspect(t, r))
                     => (~loc'[t].val /\ mutex' = mutex)
          /\ (pc[t] = "RecUnlock" /\ ~loc[t].val /\ RecUnlockAct(t))
                 => /\ mutex' = mutex
                    /\ pc' = [pc EXCEPT ![t] = loc[t].mode]
                    /\ held' = held
                    /\ ~last'.ok /\ last'.t = t /\ last'.rec = loc[t].rec
                    /\ UNCHANGED <<cache, recs, nrec, cnt, locks>>]_vars

\* two goroutines are inside RecUnlock of the same record, both having found
\* it unlocked, after a RecUnlock that did nothing has returned
C25_Witness ==
    /\ last.op = "RecUnlock" /\ ~last.ok
    /\ \E t, u \in Threads :
           /\ t # u
           /\ pc[t] = "RecUnlock" /\ pc[u] = "RecUnlock"
           /\ loc[t].rec = loc[u].rec
           /\ ~loc[t].val /\ ~loc[u].val
           /\ recLock[loc[t].rec] = 0


\* ------------------------------------------------------ deletes, observed
InitDelete ==
    /\ InitStore
    /\ obs = {"DeleteKey", "DeleteRec", "DeleteRecWOLock"}
    /\ ~loadfn /\ ~reciteratefn

\* the deletes of a key and of a record, self-locking and under the caller's
\* write store-lock, with the add that fills the map and the lookup that
\* holds a record
NextDelete ==
    \E t \in Threads :
        \/ \E keyList \in KeyLists, pRec \in Payloads : AddRec(t, keyList, pRec, TRUE)
        \/ \E key \in Keys : DeleteKey(t, key) \/ DeleteRec(t, key) \/ DeleteRecWOLock(t, key)
        \/ DeleteRecResume(t)
        \/ GetOps(t)
        \/ WriteLock(t) \/ WriteUnlock(t)

SpecDelete == InitDelete /\ [][NextDelete]_vars

\* a delete of key by goroutine t
DeleteOf(t, key) ==
    DeleteKey(t, key) \/ DeleteRec(t, key) \/ DeleteRecWOLock(t, key)

\* C26: DeleteKey, DeleteRec and DeleteRecWOLock of a key that is not in the
\* map return a failure of kind KeyNotFound to the caller and leave the map
\* and the counter as they are
C26_DeleteOfAbsentKeyFails ==
    [][\A t \in Threads, key \in Keys :
          (cache[key] = NoRec /\ DeleteOf(t, key))
              => /\ last'.t = t
                 /\ ~last'.ok
                 /\ last'.err = "KeyNotFound"
                 /\ cache' = cache
                 /\ cnt' = cnt]_vars


\* ------------------------------------------------- the two forms of a method
\* a call: the method and its arguments (flag is recExistsErrFlag of an add,
\* recState of UpdateRecState)
CallOf(op, keyList, pRec, flag, key, newKey) ==
    [op |-> op, keyList |-> keyList, pRec |-> pRec, flag |-> flag,
     key |-> key, newKey |-> newKey]

Calls ==
    {CallOf(op, keyList, pRec, flag, NoKey, NoKey) :
         op \in {"AddRec", "AddAndGetRec"}, keyList \in KeyLists,
         pRec \in Payloads \cup {Nil}, flag \in BOOLEAN}
    \cup {CallOf(op, keyList, pRec, FALSE, NoKey, NoKey) :
         op \in {"ForceAddRec", "ForceAddAndGetRec"}, keyList \in KeyLists,
         pRec \in Payloads \cup {Nil}}
    \cup {CallOf(op, <<>>, Nil, FALSE, key, newKey) :
         op \in {"ReAddRec", "ReAddAndGetRec"}, key \in Keys, newKey \in Keys}
    \cup {CallOf(op, <<>>, Nil, FALSE, key, NoKey) :
         op \in {"DeleteRec", "GetRec", "GetDataRec", "DoesKeyExist"}, key \in Keys}
    \cup {CallOf("UpdateRecState", <<>>, Nil, flag, key, NoKey) : key \in Keys, flag \in BOOLEAN}
    \cup {CallOf("DeleteCache", <<>>, Nil, FALSE, NoKey, NoKey)}

\* goroutine t makes call c in the self-locking form
SelfLocking(t, c) ==
    \/ c.op = "AddRec" /\ AddRec(t, c.keyList, c.pRec, c.flag)
    \/ c.op = "AddAndGetRec" /\ AddAndGetRec(t, c.keyList, c.pRec, c.flag)
    \/ c.op = "ForceAddRec" /\ ForceAddRec(t, c.keyList, c.pRec)
    \/ c.op = "ForceAddAndGetRec" /\ ForceAddAndGetRec(t, c.keyList, c.pRec)
    \/ c.op = "ReAddRec" /\ ReAddRec(t, c.key, c.newKey)
    \/ c.op = "ReAddAndGetRec" /\ ReAddAndGetRec(t, c.key, c.newKey)
    \/ c.op = "DeleteRec" /\ DeleteRec(t, c.key)
    \/ c.op = "DeleteCache" /\ DeleteCache(t)
    \/ c.op = "UpdateRecState" /\ UpdateRecState(t, c.key, c.flag)
    \/ c.op = "GetRec" /\ GetRec(t, c.key)
    \/ c.op = "GetDataRec" /\ GetDataRec(t, c.key)
    \/ c.op = "DoesKeyExist" /\ DoesKeyExist(t, c.key)

\* goroutine t, holding the write store-lock, makes call c in the WOLock form
CallerLocked(t, c) ==
    \/ c.op = "AddRec" /\ AddRecWOLock(t, c.keyList, c.pRec, c.flag)
    \/ c.op = "AddAndGetRec" /\ AddAndGetRecWOLock(t, c.keyList, c.pRec, c.flag)
    \/ c.op = "ForceAddRec" /\ ForceAddRecWOLock(t, c.keyList, c.pRec)
    \/ c.op = "ForceAddAndGetRec" /\ ForceAddAndGetRecWOLock(t, c.keyList, c.pRec)
    \/ c.op = "ReAddRec" /\ ReAddRecWOLock(t, c.key, c.newKey)
    \/ c.op = "ReAddAndGetRec" /\ ReAddAndGetRecWOLock(t, c.key, c.newKey)
    \/ c.op = "DeleteRec" /\ DeleteRecWOLock(t, c.key)
    \/ c.op = "DeleteCache" /\ DeleteCacheWOLock(t)
    \/ c.op = "UpdateRecState" /\ UpdateRecStateWOLock(t, c.key, c.flag)
    \/ c.op = "GetRec" /\ GetRecWOLock(t, c.key)
    \/ c.op = "GetDataRec" /\ GetDataRecWOLock(t, c.key)
    \/ c.op = "DoesKeyExist" /\ DoesKeyExistWOLock(t, c.key)

\* what the caller sees of a call: inside (the method waits for a record lock,
\* or has steps left), or returned with success or with failure
Outcome(t) ==
    IF ~Free(t) THEN "inside" ELSE IF last.ok THEN "success" ELSE "failure"

\* the parts of the state calls are compared in: the map, the counter, the
\* state words of the record locks, the outcome for caller t, the key lists,
\* the *Rec and the payload returned
Part(part, t) ==
    CASE part = "cache" -> cache
      [] part = "cnt" -> cnt
      [] part = "pRecLock" -> recLock
      [] part = "outcome" -> Outcome(t)
      [] part = "KeyList" -> KeyList
      [] part = "returned" -> IF Free(t) THEN <<last.rec, last.data>> ELSE <<NoRec, Nil>>

PartValues(part) ==
    CASE part = "cache" -> CacheStores
      [] part = "cnt" -> Counts
      [] part = "pRecLock" -> [Recs -> {0, mutexLocked}]
      [] part = "outcome" -> {"inside", "success", "failure"}
      [] part = "KeyList" -> {KeyList} \cup {[KeyList EXCEPT ![r] = Append(@, k)] :
                                                r \in Recs, k \in Keys}
      [] part = "returned" -> (Recs \cup {NoRec}) \X (Payloads \cup {Nil})

\* the self-locking form of call c, made by t now, ends its step with value
\* v of the part
SelfLockingGives(t, c, part, v) ==
    ENABLED (SelfLocking(t, c) /\ Part(part, t)' = v)

\* the same for the WOLock form made by t after WriteLock()
CallerLockedGives(t, c, part, v) ==
    ENABLED (WriteLock(t) /\ (ENABLED (CallerLocked(t, c) /\ Part(part, t)' = v))')

InitForms ==
    /\ InitStore
    /\ obs = {c.op : c \in Calls}
             \cup {"AddRecWOLock", "AddAndGetRecWOLock", "ForceAddRecWOLock",
                   "ForceAddAndGetRecWOLock", "ReAddRecWOLock", "ReAddAndGetRecWOLock",
                   "DeleteRecWOLock", "DeleteCacheWOLock", "UpdateRecStateWOLock",
                   "GetRecWOLock", "GetDataRecWOLock", "DoesKeyExistWOLock"}
    /\ ~loadfn /\ ~reciteratefn

\* the states the calls are compared in: records added, looked up and held,
\* keys deleted
NextForms ==
    \E t \in Threads :
        \/ \E keyList \in KeyLists, pRec \in Payloads : AddRec(t, keyList, pRec, TRUE)
        \/ \E key \in Keys : DeleteKey(t, key)
        \/ GetOps(t)

SpecForms == InitForms /\ [][NextForms]_vars

\* C27: when no goroutine holds the store lock, a call of a method in its
\* self-locking form and the same call in its WOLock form under WriteLock()
\* end their step with the same map, the same counter, the same states of
\* the record locks and the same outcome for the caller
C27_WOLockFormsAgree ==
    (wr = NoThread /\ rd = {}) =>
        \A t \in Threads : Idle(t) =>
            \A c \in Calls, part \in {"cache", "cnt", "pRecLock", "outcome"} :
                \A v \in PartValues(part) :
                    SelfLockingGives(t, c, part, v) <=> CallerLockedGives(t, c, part, v)


\* ----------------------------------------------------------- forced adds
InitForce ==
    /\ InitStore
    /\ obs = {"ForceAddRec", "ForceAddRecWOLock"}
    /\ ~loadfn /\ ~reciteratefn

\* the forced add in its two forms after adds that made keys resolve, among
\* lookups that hold the records
NextForce ==
    \E t \in Threads :
        \/ \E keyList \in KeyLists, pRec \in Payloads : AddRec(t, keyList, pRec, TRUE)
        \/ \E keyList \in KeyLists, pRec \in Payloads \cup {Nil} :
               ForceAddRec(t, keyList, pRec) \/ ForceAddRecWOLock(t, keyList, pRec)
        \/ GetOps(t)
        \/ WriteLock(t) \/ WriteUnlock(t)

SpecForce == InitForce /\ [][NextForce]_vars

ForceAddRecOf(t, keyList, pRec) ==
    ForceAddRec(t, keyList, pRec) \/ ForceAddRecWOLock(t, keyList, pRec)

\* C28: a ForceAddRec (or ForceAddRecWOLock) with a payload returns success
\* having created one record, active and with the payload and the key list
\* given, to which every key of the list maps, whatever the keys mapped to
\* before, and having raised the counter by one, which it returns
C28_ForceAddMapsEveryKey ==
    [][\A t \in Threads, keyList \in KeyLists, pRec \in Payloads :
          ForceAddRecOf(t, keyList, pRec) =>
              /\ nrec' = nrec + 1
              /\ \A i \in 1..Len(keyList) : cache'[keyList[i]] = nrec'
              /\ \A r \in 1..nrec : KeyList'[r] = KeyList[r] /\ PDataRec'[r] = PDataRec[r]
              /\ isActive'[nrec'] /\ PDataRec'[nrec'] = pRec /\ KeyList'[nrec'] = keyList
              /\ cnt' = cnt + 1
              /\ last'.ok /\ last'.t = t /\ last'.cnt = cnt']_vars

\* a forced add has returned and its record has a key that was a key of the
\* record added before it, and every key of its list maps to it
C28_Witness ==
    /\ last.op \in {"ForceAddRec", "ForceAddRecWOLock"} /\ last.ok
    /\ nrec = 2
    /\ \E i \in 1..Len(KeyList[1]), j \in 1..Len(KeyList[2]) : KeyList[1][i] = KeyList[2][j]
    /\ \A j \in 1..Len(KeyList[2]) : cache[KeyList[2][j]] = 2
    /\ Len(KeyList[2]) = MaxAddKeys


\* -------------------------------------------------------- DoesKeyExist
InitExist ==
    /\ InitStore
    /\ obs = {"DoesKeyExist", "DoesKeyExistWOLock"}
    /\ ~loadfn /\ ~reciteratefn

\* DoesKeyExist in its two forms, the WOLock form under the caller's read
\* store-lock, among adds, deletes of a key and lookups that hold records
NextExist ==
    \E t \in Threads :
        \/ \E keyList \in KeyLists, pRec \in Payloads : AddRec(t, keyList, pRec, TRUE)
        \/ \E key \in Keys : DeleteKey(t, key)
        \/ GetOps(t)
        \/ \E key \in Keys : DoesKeyExist(t, key) \/ DoesKeyExistWOLock(t, key)
        \/ ReadLock(t) \/ ReadUnlock(t)

SpecExist == InitExist /\ [][NextExist]_vars

DoesKeyExistOf(t, key) == DoesKeyExist(t, key) \/ DoesKeyExistWOLock(t, key)

\* C29: whenever the store lock lets goroutine t read (no writer, t idle; or
\* t holding the store lock for the WOLock form), DoesKeyExist(key) can
\* return at once, whoever holds the lock of the record of key; it returns
\* true exactly if key is in the map, and changes none of the map, the
\* records, the counter, the record locks, the holds and the store lock
C29_DoesKeyExistReadsOnly ==
    /\ [](\A t \in Threads, key \in Keys :
             /\ (Idle(t) /\ wr = NoThread) => ENABLED DoesKeyExist(t, key)
             /\ (WLocked(t) \/ RLocked(t)) => ENABLED DoesKeyExistWOLock(t, key))
    /\ [][\A t \in Threads, key \in Keys :
             DoesKeyExistOf(t, key) =>
                 /\ last'.t = t
                 /\ last'.ok <=> cache[key] # NoRec
                 /\ pc'[t] = pc[t]
                 /\ UNCHANGED <<cache, recs, mutex, nrec, cnt, locks, held, handles>>]_vars

\* DoesKeyExist has returned true to one goroutine for a key whose record
\* another goroutine holds locked from a GetRec
C29_Witness ==
    /\ last.op \in {"DoesKeyExist", "DoesKeyExistWOLock"} /\ last.ok
    /\ \E key \in Keys, u \in Threads \ {last.t} :
           /\ cache[key] # NoRec
           /\ recLock[cache[key]] = mutexLocked
           /\ held[u][cache[key]] = "GetRec"
           /\ owner[cache[key]] = u


\* ------------------------------------------------------- the active flag
InitFlag ==
    /\ InitStore
    /\ obs = {"GetRec", "GetDataRec", "DoesKeyExist", "ReAddRec", "DeleteRec"}
    /\ ~loadfn /\ ~reciteratefn

\* records added under one key each, their flag cleared by UpdateRecState,
\* looked up and held
NextFlag ==
    \E t \in Threads :
        \/ \E key \in Keys, pRec \in Payloads : AddRec(t, <<key>>, pRec, TRUE)
        \/ GetOps(t)
        \/ \E key \in Keys : UpdateRecState(t, key, FALSE)
        \/ UpdateRecStateResume(t)
        \/ UpdateRecStateWrite(t)

SpecFlag == InitFlag /\ [][NextFlag]_vars

\* the state that differs from the current one in the flag of record r only,
\* which is set
SetActive(r) ==
    /\ isActive' = [isActive EXCEPT ![r] = TRUE]
    /\ UNCHANGED <<cache, KeyList, PDataRec, mutex, nrec, cnt, life, locks, thr, own,
                   obs, last, ghost>>

\* the calls of GetRec, GetDataRec, DoesKeyExist, ReAddRec and DeleteRec on
\* a key of record r
CallsOnRecord(r) ==
    {c \in Calls : /\ c.op \in {"GetRec", "GetDataRec", "DoesKeyExist", "ReAddRec", "DeleteRec"}
                   /\ cache[c.key] = r}

InitData ==
    /\ InitStore
    /\ obs = {"GetDataRec", "GetDataRecWOLock"}
    /\ ~loadfn /\ ~reciteratefn

\* GetDataRec in its two forms, the WOLock form under the caller's read
\* store-lock, among adds and lookups that hold records
NextData ==
    \E t \in Threads :
        \/ \E keyList \in KeyLists, pRec \in Payloads : AddRec(t, keyList, pRec, TRUE)
        \/ GetOps(t)
        \/ \E key \in Keys : GetDataRec(t, key) \/ GetDataRecWOLock(t, key)
        \/ GetDataRecResume(t)
        \/ GetDataRecRead(t)
        \/ ReadLock(t) \/ ReadUnlock(t)

SpecData == InitData /\ [][NextData]_vars

\* C31: GetDataRec (or GetDataRecWOLock) of a key that is not in the map
\* returns failure and no payload and touches no record lock; of a key whose
\* record another goroutine holds locked and has not released it waits; and
\* once it has the lock of the record it returns success with the payload of
\* the record, the lock of the record free and not held by the caller
C31_GetDataRecReadsUnderLock ==
    [][\A t \in Threads :
          /\ \A key \in Keys :
                 (GetDataRec(t, key) \/ GetDataRecWOLock(t, key)) =>
                     IF cache[key] = NoRec
                     THEN /\ last'.t = t /\ ~last'.ok /\ last'.data = Nil
                          /\ pc'[t] = pc[t]
                          /\ UNCHANGED <<mutex, held, handles>>
                     ELSE (\E u \in Threads \ {t} : held[u][cache[key]] # NotHeld)
                              => /\ pc'[t] \in {"GetDataRec", "GetDataRecWOLock"}
                                 /\ UNCHANGED <<mutex, held, last>>
          /\ (pc[t] = "GetDataRecRead" /\ GetDataRecRead(t)) =>
                 /\ pc'[t] = loc[t].mode
                 /\ last'.t = t /\ last'.ok /\ last'.data = PDataRec[loc[t].rec]
                 /\ recLock'[loc[t].rec] = 0
                 /\ held' = held /\ handles' = handles
                 /\ UNCHANGED <<cache, recs, cnt>>]_vars


\* ------------------------------------------- DeleteRec and the store lock
\* a step of a self-locking method of the store by goroutine u: a call with
\* a payload of payloads (adds) or a handler of handlers (AuxIterate), or the
\* return of a Lock() a method of u waits in
StoreCall(u, payloads, handlers) ==
    \/ \E keyList \in KeyLists, pRec \in payloads :
           \/ \E f \in BOOLEAN : AddRec(u, keyList, pRec, f) \/ AddAndGetRec(u, keyList, pRec, f)
           \/ ForceAddRec(u, keyList, pRec) \/ ForceAddAndGetRec(u, keyList, pRec)
    \/ ReAddOps(u)
    \/ DeleteOps(u)
    \/ (\E key \in Keys : GetRec(u, key)) \/ GetRecResume(u)
    \/ ReadOps(u)
    \/ StateOps(u)
    \/ CntOps(u)
    \/ LifeOps(u)
    \/ (\E h \in handlers : AuxIterate(u, h)) \/ AuxIterateLock(u) \/ AuxIterateUnlock(u)

\* C32 (as stated): a goroutine inside DeleteRec, between its lookup and its
\* unlink, holds the write store-lock, and no self-locking method of another
\* goroutine can take a step, whatever its arguments; the DeleteRec returns
\* with the keys of the record unlinked, the counter lowered by one and the
\* store lock released
C32_NothingCompletesDuringDeleteRec ==
    /\ [](\A t \in Threads : pc[t] = "DeleteRec" =>
             /\ wr = t
             /\ \A u \in Threads \ {t} : ~ENABLED StoreCall(u, Payloads \cup {Nil}, BOOLEAN))
    /\ [][\A t \in Threads : (pc[t] = "DeleteRec" /\ DeleteRecResume(t)) =>
             /\ \A i \in 1..Len(KeyList[loc[t].rec]) : cache'[KeyList[loc[t].rec][i]] = NoRec
             /\ cnt' = cnt - 1
             /\ wr' = NoThread /\ pc'[t] = "idle"]_vars

\* C32 (amended): as stated, for the methods of other goroutines called with
\* a payload and a handler; an add called with a nil payload and an
\* AuxIterate called with a nil handler return their error before they ask
\* for the store lock
C32_NoLockingCallDuringDeleteRec ==
    /\ [](\A t \in Threads : pc[t] = "DeleteRec" =>
             /\ wr = t
             /\ \A u \in Threads \ {t} : ~ENABLED StoreCall(u, Payloads, {TRUE}))
    /\ [][\A t \in Threads : (pc[t] = "DeleteRec" /\ DeleteRecResume(t)) =>
             /\ \A i \in 1..Len(KeyList[loc[t].rec]) : cache'[KeyList[loc[t].rec][i]] = NoRec
             /\ cnt' = cnt - 1
             /\ wr' = NoThread /\ pc'[t] = "idle"]_vars

\* a DeleteRec waits, the write store-lock taken, for a record that another
\* goroutine holds from GetRec, and the map has a second record
C32_Witness ==
    \E t \in Threads, u \in Threads :
        /\ u # t
        /\ pc[t] = "DeleteRec" /\ wr = t
        /\ held[u][loc[t].rec] = "GetRec" /\ owner[loc[t].rec] = u
        /\ pc[u] = "idle"
        /\ \E k \in Keys : cache[k] # NoRec /\ cache[k] # loc[t].rec


\* ------------------------------------------------- the frame of a forced add
\* C33: a forced add (ForceAddRec, ForceAddAndGetRec and their WOLock forms)
\* called with a payload leaves every key that is not a key of the call
\* mapped as it was, integer keys included
C33_ForceAddLeavesOtherKeys ==
    [][\A t \in Threads, keyList \in KeyLists, pRec \in Payloads :
          (\/ ForceAddRec(t, keyList, pRec) \/ ForceAddRecWOLock(t, keyList, pRec)
           \/ ForceAddAndGetRec(t, keyList, pRec) \/ ForceAddAndGetRecWOLock(t, keyList, pRec))
              => \A k \in Keys :
                     (\A i \in 1..Len(keyList) : keyList[i] # k) => cache'[k] = cache[k]]_vars


\* --------------------------------------- alias lists and the keys of a record
\* Create(loadfn, nil): a loader is registered, no iterator
InitKeys == InitStore /\ obs = {} /\ loadfn /\ ~reciteratefn

\* every method that maps a key (the adds, unchecked and forced, the re-add,
\* Load) and the deletes of a key and of a record, among lookups that hold
\* records
NextKeys ==
    \E t \in Threads :
        \/ \E keyList \in KeyLists, pRec \in Payloads :
               AddRec(t, keyList, pRec, FALSE) \/ ForceAddRec(t, keyList, pRec)
        \/ \E k1, k2 \in Keys : ReAddRec(t, k1, k2)
        \/ \E res \in LoadResults : Load(t, TRUE, res)
        \/ \E key \in Keys : DeleteKey(t, key) \/ DeleteRec(t, key)
        \/ DeleteRecResume(t)
        \/ GetOps(t)

SpecKeys == InitKeys /\ [][NextKeys]_vars

\* C34: in every state every key that maps to a record is in the alias list
\* of that record; no step takes a key out of the alias list of a record or
\* alters the keys the list had; and a DeleteRec that has unlinked a record
\* leaves no key mapped to it
C34_AliasListCoversKeys ==
    /\ [](\A k \in Keys : cache[k] # NoRec => k \in Aliases(cache[k]))
    /\ [][/\ \A r \in 1..nrec :
                /\ Len(KeyList'[r]) >= Len(KeyList[r])
                /\ SubSeq(KeyList'[r], 1, Len(KeyList[r])) = KeyList[r]
          /\ \A t \in Threads, r \in 1..nrec :
                (cnt' = cnt - 1 /\ pc'[t] = "idle" /\ DeleteRecOf(t, r))
                    => \A k \in Keys : cache'[k] # r]_vars

\* the one record made, which had both keys in its alias list, was unlinked
\* by a DeleteRec (no Load has run, so only a DeleteRec lowered the counter):
\* no key maps to it
C34_Witness ==
    /\ ~singletonFlag
    /\ nrec = 1 /\ cnt = 0
    /\ Len(KeyList[1]) = MaxKeyListLen
    /\ \A k \in Keys : cache[k] = NoRec


\* ------------------------------------------------- the strict discipline
\* goroutine t has a record it received locked and has not released
Holding(t) == \E r \in Recs : held[t][r] # NotHeld

\* goroutine t releases a record it received locked
Release(t) == \E r \in Recs : held[t][r] # NotHeld /\ RecUnlock(t, r)

\* a Lock() of a record lock that goroutine t waits in returns, or the loop
\* of a method of t that has the store lock takes its next turn
Return(t) ==
    \/ GetRecResume(t)
    \/ ReAddAndGetRecResume(t)
    \/ DeleteRecResume(t)
    \/ DeleteCacheStep(t)
    \/ GetDataRecResume(t) \/ GetDataRecRead(t)
    \/ UpdateRecStateResume(t) \/ UpdateRecStateWrite(t)
    \/ AuxIterateLock(t) \/ AuxIterateUnlock(t)

\* the self-locking methods called by goroutines that keep the discipline: a
\* goroutine that has a record it received locked calls RecUnlock on it and
\* nothing else, RecUnlock is called on such records only, and the direct
\* lock primitives of the store and of the records are not used
NextStrict ==
    \E t \in Threads :
        \/ Release(t)
        \/ Return(t)
        \/ \E keyList \in KeyLists, pRec \in Payloads :
               ~Holding(t) /\ AddAndGetRec(t, keyList, pRec, TRUE)
        \/ \E k1, k2 \in Keys : ~Holding(t) /\ ReAddAndGetRec(t, k1, k2)
        \/ \E key \in Keys : ~Holding(t) /\ GetRec(t, key)
        \/ \E key \in Keys : ~Holding(t) /\ nDel < MaxDel /\ DeleteRec(t, key)
        \/ ~Holding(t) /\ DeleteCache(t)
        \/ \E key \in Keys : ~Holding(t) /\ GetDataRec(t, key)
        \/ \E key \in Keys : ~Holding(t) /\ UpdateRecState(t, key, TRUE)
        \/ ~Holding(t) /\ AuxIterate(t, TRUE)

\* fair scheduling: a goroutine that has a record releases it (weak: the
\* release stays possible until it is done), and a goroutine that waits in
\* Lock() of a sync.Mutex obtains it when it is unlocked again and again
\* (strong: the mutex hands over to a waiter that has waited)
FairStrict ==
    \A t \in Threads : WF_vars(Release(t)) /\ SF_vars(Return(t))

SpecStrict == Init /\ [][NextStrict]_vars /\ FairStrict

C36_HolderCanCallStore ==
    \A t \in Threads, r \in Recs :
        (/\ pc[t] = "idle" /\ wr # t /\ t \notin rd
         /\ held[t][r] = "GetRec" /\ owner[r] = t
         /\ \A q \in Recs \ {r} : held[t][q] = NotHeld
         /\ \A u \in Threads \ {t} : pc[u] \in {"idle", "GetRec", "DeleteRec"})
            => \/ \E u \in Threads \ {t} : ENABLED (Return(u) \/ Release(u))
               \/ \A k \in Keys : cache[k] # r =>
                     /\ ENABLED GetCnt(t)
                     /\ ENABLED DoesKeyExist(t, k)
                     /\ ENABLED GetRec(t, k)
                     /\ nrec < MaxRecs =>
                            \A pRec \in Payloads : ENABLED AddRec(t, <<k>>, pRec, FALSE)


\* ------------------------------------------------------ duplicate unlocks
\* C37: a RecUnlock by a goroutine that has released the record already
\* leaves the lock of the record as it is while another goroutine holds the
\* record, and in every state at most one goroutine is between receiving a
\* record locked and releasing it
C37_DuplicateUnlockKeepsExclusion ==
    /\ [](\A r \in Recs, t \in Threads, u \in Threads :
             (held[t][r] # NotHeld /\ held[u][r] # NotHeld) => t = u)
    /\ [][\A t \in Threads, r \in Recs :
             (/\ held[t][r] = NotHeld
              /\ \E u \in Threads \ {t} : held[u][r] # NotHeld
              /\ RecUnlock(t, r))
                 => recLock'[r] = recLock[r]]_vars


\* ------------------------------------------------------ the load-time flag
\* C38: the load-time flag is false on a store just created; no step clears
\* it; and a Load, Iterate or LoadAndIterate called while it is set returns
\* the already-executed error, having called neither the loader nor the
\* handler and having left the map, the records and the counter as they were
C38_LifecycleFlagMonotone ==
    /\ ~singletonFlag
    /\ [][singletonFlag => singletonFlag']_vars
    /\ [](singletonFlag =>
             \A t \in Threads :
                 ~ENABLED (/\ LifeOps(t)
                           /\ ~(/\ last'.t = t
                                /\ last'.op \in {"Load", "Iterate", "LoadAndIterate"}
                                /\ ~last'.ok /\ last'.err = "AlreadyLoaded"
                                /\ UNCHANGED <<cache, recs, nrec, cnt, cntSet, handled>>)))

\* with a loader and an iterator registered, a LoadAndIterate has loaded and
\* swept a record, and an Iterate called after it was refused
C38_Witness ==
    /\ loadfn /\ reciteratefn /\ singletonFlag
    /\ cntSet /\ \E r \in Recs : handled[r] > 0
    /\ last.op = "Iterate" /\ ~last.ok /\ last.err = "AlreadyLoaded"

====
